---- MODULE Spec2Model ----
(***************************************************************************)
(* WorkoutSync (mobile PWA): the session gate (middleware.ts), the         *)
(* location service (src/lib/services/location.ts) and the location state  *)
(* machine of the profile pages that call it.                              *)
(*                                                                         *)
(* The error utilities (src/lib/utils/errors.ts: detectErrorType,           *)
(* createErrorInfo, retryOperation) are modelled as well.                  *)
(* So are the phone and form validators of location.ts, the install       *)
(* prompt (src/components/InstallPrompt.tsx), signing in through           *)
(* /api/auth/login-direct, and the profile edit form.                      *)
(*                                                                         *)
(* JavaScript strings are TLA+ strings; characters are read with           *)
(* SubSeq(s, i, i).  Numbers are integers (coordinates in whole degrees,   *)
(* times in milliseconds).                                                 *)
(***************************************************************************)
EXTENDS Integers, Sequences, FiniteSets, TLC

VARIABLES
    gPath,      \* gate: pathname of the request being answered
    gSearch,    \* gate: query string of that request
    gUser,      \* gate: TRUE iff supabase.auth.getUser() yields a user
    gResp,      \* gate: the response of the middleware, or NoResp
    gHops,      \* gate: redirects followed since the navigation started
    storage,    \* localStorage value under LOCATION_CACHE_KEY
    now,        \* Date.now()
    ticks,      \* number of clock steps taken (bounds the clock)
    att,        \* detection attempts: position, locals and result of each call
    ui,         \* locationData.state of the page
    page,       \* which page hosts the detect button
    api,        \* last direct call of an exported cache function and its outcome
    lastGps,    \* history: the last fresh detection whose cache write was accepted
    retry,      \* one call of retryOperation: options, loop position, timer, outcome
    call,       \* last direct call of a function of the utilities and its outcome
    phoneCall,  \* last direct call of a phone function and its outcome
    install,    \* the install prompt component, its stored dismissal and its clock
    login,      \* the login page: form, outcome of signIn, session of the browser
    edit        \* the profile edit form and what handleSave came to

gateVars == <<gPath, gSearch, gUser, gResp, gHops>>
locVars  == <<storage, now, ticks, att, ui, page, api, lastGps>>
utilVars == <<retry, call, phoneCall, install, login, edit>>
vars     == <<gPath, gSearch, gUser, gResp, gHops,
             storage, now, ticks, att, ui, page, api, lastGps, retry, call, phoneCall,
             install, login, edit>>

(***************************************************************************)
(* String helpers (String.prototype.startsWith, URLSearchParams).          *)
(***************************************************************************)
charAt(s, i) == SubSeq(s, i, i)

startsWith(s, prefix) ==
    /\ Len(s) >= Len(prefix)
    /\ SubSeq(s, 1, Len(prefix)) = prefix

\* application/x-www-form-urlencoded byte serializer, on the characters the
\* model's paths use: letters, digits and - . _ * stay, a space becomes +,
\* every other character is percent-encoded.
encodeChar(c) ==
    CASE c = "/" -> "%2F"
      [] c = "%" -> "%25"
      [] c = "+" -> "%2B"
      [] c = "?" -> "%3F"
      [] c = "=" -> "%3D"
      [] c = " " -> "+"
      [] OTHER   -> c

RECURSIVE urlencode(_)
urlencode(s) ==
    IF s = "" THEN ""
    ELSE encodeChar(charAt(s, 1)) \o urlencode(SubSeq(s, 2, Len(s)))

decodeHex(h) ==
    CASE h = "2F" -> "/"
      [] h = "25" -> "%"
      [] h = "2B" -> "+"
      [] h = "3F" -> "?"
      [] h = "3D" -> "="
      [] OTHER    -> "%" \o h

RECURSIVE urldecode(_)
urldecode(s) ==
    IF s = "" THEN ""
    ELSE IF charAt(s, 1) = "+" THEN " " \o urldecode(SubSeq(s, 2, Len(s)))
    ELSE IF charAt(s, 1) = "%" /\ Len(s) >= 3
         THEN decodeHex(SubSeq(s, 2, 3)) \o urldecode(SubSeq(s, 4, Len(s)))
    ELSE charAt(s, 1) \o urldecode(SubSeq(s, 2, Len(s)))

\* url.searchParams.get(name) on a query string that holds one parameter
searchParamsGet(search, name) ==
    IF startsWith(search, "?" \o name \o "=")
    THEN urldecode(SubSeq(search, Len(name) + 3, Len(search)))
    ELSE "null"

(***************************************************************************)
(* Session gate: middleware.ts                                             *)
(***************************************************************************)
\* the login page listed among the protected routes
protectedRoutes_withLogin == {"/feed", "/workout", "/profile", "/friends", "/login"}

protectedRoutes == {"/feed", "/workout", "/profile", "/friends"}
publicRoutes    == {"/login", "/register", "/profile-setup"}

isProtectedRoute(pathname) == \E route \in protectedRoutes : startsWith(pathname, route)
isPublicRoute(pathname)    == \E route \in publicRoutes : startsWith(pathname, route)
isRoot(pathname)           == pathname = "/"

\* config.matcher: '/((?!_next/static|_next/image|favicon.ico|api/|icons/).*)'
\* (the dot of favicon.ico matches any character)
matcherExcluded == {"_next/static", "_next/image", "api/", "icons/"}

matcher(pathname) ==
    LET rest == SubSeq(pathname, 2, Len(pathname)) IN
    /\ startsWith(pathname, "/")
    /\ \A x \in matcherExcluded : ~startsWith(rest, x)
    /\ ~( /\ Len(rest) >= 11
          /\ SubSeq(rest, 1, 7) = "favicon"
          /\ SubSeq(rest, 9, 11) = "ico" )

NoResp == [kind |-> "none", pathname |-> "", search |-> "", cookies |-> FALSE]

\* NextResponse.next({request}); setAll() puts the refreshed session cookies on it
PassThrough(refreshed) ==
    [kind |-> "next", pathname |-> "", search |-> "", cookies |-> refreshed]

\* NextResponse.redirect(url): a new response, without the refreshed cookies
Redirect(pathname, search) ==
    [kind |-> "redirect", pathname |-> pathname, search |-> search, cookies |-> FALSE]

\* middleware with loginUrl.searchParams.set('redirect', pathname) left out
middleware_noRedirectParam(pathname, user, refreshed) ==
    IF isRoot(pathname)
    THEN (IF user THEN Redirect("/feed", "") ELSE Redirect("/login", ""))
    ELSE IF isProtectedRoute(pathname) /\ ~user
    THEN Redirect("/login", "")
    ELSE IF isPublicRoute(pathname) /\ user
    THEN Redirect("/feed", "")
    ELSE PassThrough(refreshed)

\* middleware with the public-route check testing !user
middleware_publicUnauth(pathname, user, refreshed) ==
    IF isRoot(pathname)
    THEN (IF user THEN Redirect("/feed", "") ELSE Redirect("/login", ""))
    ELSE IF isProtectedRoute(pathname) /\ ~user
    THEN Redirect("/login", "?redirect=" \o urlencode(pathname))
    ELSE IF isPublicRoute(pathname) /\ ~user
    THEN Redirect("/feed", "")
    ELSE PassThrough(refreshed)

\* middleware with the root check after the route checks and sending every
\* visitor of / to /login
middleware_rootLogin(pathname, user, refreshed) ==
    IF isProtectedRoute(pathname) /\ ~user
    THEN Redirect("/login", "?redirect=" \o urlencode(pathname))
    ELSE IF isPublicRoute(pathname) /\ user
    THEN Redirect("/feed", "")
    ELSE IF isRoot(pathname)
    THEN Redirect("/login", "")
    ELSE PassThrough(refreshed)

middleware(pathname, user, refreshed) ==
    IF isRoot(pathname)
    THEN (IF user THEN Redirect("/feed", "") ELSE Redirect("/login", ""))
    ELSE IF isProtectedRoute(pathname) /\ ~user
    THEN Redirect("/login", "?redirect=" \o urlencode(pathname))
    ELSE IF isPublicRoute(pathname) /\ user
    THEN Redirect("/feed", "")
    ELSE PassThrough(refreshed)

\* what the framework answers: paths outside the matcher never reach the gate
respond(pathname, user, refreshed) ==
    IF matcher(pathname) THEN middleware(pathname, user, refreshed)
    ELSE PassThrough(FALSE)

GatePaths ==
    { "/", "/feed", "/feed/today", "/feedback", "/feed/a%20b", "/workout",
      "/workout/new", "/profile", "/profile/edit", "/profile-setup",
      "/profile-setup/step", "/friends", "/login", "/login/help", "/register",
      "/about", "/settings", "/log", "/api/profile", "/icons/icon.png",
      "/favicon.ico", "/_next/static/app.js" }

GateSearches == {"", "?tab=1"}

MaxHops == 3

\* a navigation: the browser requests pathname; the session lookup yields a
\* user or not, and may refresh the session cookies
Navigate(pathname, search, user, refreshed) ==
    /\ gPath' = pathname
    /\ gSearch' = search
    /\ gUser' = user
    /\ gResp' = respond(pathname, user, user /\ refreshed)
    /\ gHops' = 0
    /\ UNCHANGED <<locVars, utilVars>>

\* the browser follows a redirect response: a new request, same session
FollowRedirect ==
    /\ gResp.kind = "redirect"
    /\ gHops < MaxHops
    /\ gPath' = gResp.pathname
    /\ gSearch' = gResp.search
    /\ gResp' = respond(gResp.pathname, gUser, FALSE)
    /\ gHops' = gHops + 1
    /\ UNCHANGED <<gUser>>
    /\ UNCHANGED <<locVars, utilVars>>

GateIdle ==
    /\ gPath = "/"
    /\ gSearch = ""
    /\ gUser = FALSE
    /\ gResp = NoResp
    /\ gHops = 0

(***************************************************************************)
(* Location service: src/lib/services/location.ts                          *)
(***************************************************************************)
CACHE_DURATION_MS == 24 * 60 * 60 * 1000

RECURSIVE trimStart(_)
trimStart(s) ==
    IF s # "" /\ charAt(s, 1) = " " THEN trimStart(SubSeq(s, 2, Len(s))) ELSE s

RECURSIVE trimEnd(_)
trimEnd(s) ==
    IF s # "" /\ charAt(s, Len(s)) = " " THEN trimEnd(SubSeq(s, 1, Len(s) - 1)) ELSE s

\* String.prototype.trim
trim(s) == trimEnd(trimStart(s))

isValidCoordinates(lat, lng) ==
    /\ lat >= -90
    /\ lat <= 90
    /\ lng >= -180
    /\ lng <= 180

\* The value under LOCATION_CACHE_KEY.  kind "none": getItem returns null;
\* kind "garbage": a string JSON.parse rejects; kind "entry": the JSON text of
\* an object with these fields (JSON.stringify and JSON.parse keep finite
\* numbers and strings as they are).  tsOk = FALSE: the object has no numeric
\* timestamp, so every comparison with it is false.
NoEntry ==
    [kind |-> "none", latitude |-> 0, longitude |-> 0, name |-> "",
     timestamp |-> 0, tsOk |-> FALSE]

Garbage ==
    [kind |-> "garbage", latitude |-> 0, longitude |-> 0, name |-> "",
     timestamp |-> 0, tsOk |-> FALSE]

Entry(lat, lng, name, ts) ==
    [kind |-> "entry", latitude |-> lat, longitude |-> lng, name |-> name,
     timestamp |-> ts, tsOk |-> TRUE]

NoFaults == [get |-> FALSE, rm |-> FALSE, rmc |-> FALSE, set |-> FALSE]

\* Which localStorage calls throw: getItem, removeItem inside the try block,
\* removeItem inside the catch block, setItem.
Faults == [get : BOOLEAN, rm : BOOLEAN, rmc : BOOLEAN, set : BOOLEAN]

ReadFaults  == {f \in Faults : ~f.set}
WriteFaults == {f \in Faults : ~f.get /\ ~f.rm /\ ~f.rmc}

\* the catch block of getCachedLocation: removeItem, then return null; an
\* exception of removeItem leaves the function.  faulted: a localStorage call
\* threw before the catch block was entered
cachedCatch(st, f, faulted) ==
    IF f.rmc
    THEN [threw |-> TRUE, ret |-> NoEntry, storage |-> st, faulted |-> TRUE]
    ELSE [threw |-> FALSE, ret |-> NoEntry, storage |-> NoEntry, faulted |-> faulted]

\* removeItem inside the try block, then return null
cachedRemove(st, f) ==
    IF f.rm
    THEN cachedCatch(st, f, TRUE)
    ELSE [threw |-> FALSE, ret |-> NoEntry, storage |-> NoEntry, faulted |-> FALSE]

\* isExpired with >= for >
isExpired_inclusive(e, t) == e.tsOk /\ t - e.timestamp >= CACHE_DURATION_MS

\* now - parsedCache.timestamp > CACHE_DURATION_MS
isExpired(e, t) == e.tsOk /\ t - e.timestamp > CACHE_DURATION_MS

\* getCachedLocation() at time t over the stored value st: what it returns
\* (ret = NoEntry is null), whether it throws, the stored value afterwards,
\* and whether a localStorage call threw on the way
getCachedLocation(st, t, f) ==
    IF f.get
    THEN cachedCatch(st, f, TRUE)
    ELSE IF st.kind = "none"
    THEN [threw |-> FALSE, ret |-> NoEntry, storage |-> st, faulted |-> FALSE]
    ELSE IF st.kind = "garbage"
    THEN cachedCatch(st, f, FALSE)
    ELSE IF isExpired(st, t)
    THEN cachedRemove(st, f)
    ELSE IF ~isValidCoordinates(st.latitude, st.longitude)
    THEN cachedRemove(st, f)
    ELSE [threw |-> FALSE, ret |-> st, storage |-> st, faulted |-> FALSE]

\* TRUE iff cacheLocation(lat, lng, name) reaches setItem and setItem throws
writeFaulted(lat, lng, name, f) ==
    isValidCoordinates(lat, lng) /\ trim(name) # "" /\ f.set

\* cacheLocation storing longitude as latitude and latitude as longitude
cacheLocation_swapped(st, t, lat, lng, name, f) ==
    IF ~isValidCoordinates(lat, lng) \/ trim(name) = ""
    THEN st
    ELSE IF f.set
    THEN st
    ELSE Entry(lng, lat, trim(name), t)

\* cacheLocation updating the fields of an entry that is already stored and
\* leaving its timestamp
cacheLocation_merge(st, t, lat, lng, name, f) ==
    IF ~isValidCoordinates(lat, lng) \/ trim(name) = ""
    THEN st
    ELSE IF f.set
    THEN st
    ELSE IF st.kind = "entry"
    THEN [st EXCEPT !.latitude = lat, !.longitude = lng, !.name = trim(name)]
    ELSE Entry(lat, lng, trim(name), t)

\* cacheLocation(lat, lng, name) at time t: the stored value afterwards
cacheLocation(st, t, lat, lng, name, f) ==
    IF ~isValidCoordinates(lat, lng) \/ trim(name) = ""
    THEN st
    ELSE IF f.set
    THEN st
    ELSE Entry(lat, lng, trim(name), t)

\* clearCache(): an exception of removeItem is caught
clearCache(st, f) == IF f.rm THEN st ELSE NoEntry

\* what an earlier session, an older build or the user may have left under the
\* key when the page loads (the clock starts at CACHE_DURATION_MS)
InitStorages ==
    { NoEntry,
      Garbage,
      Entry(10, 20, "Old area", 0),
      Entry(91, 20, "Far area", CACHE_DURATION_MS),
      [Entry(10, 20, "Undated area", 0) EXCEPT !.tsOk = FALSE] }

\* op and arguments of the call, the stored value before it (for
\* getCachedLocation), whether a localStorage call threw during it, whether
\* the function itself threw, and what it returned (NoEntry is null)
ApiNone ==
    [op |-> "none", lat |-> 0, lng |-> 0, name |-> "", before |-> NoEntry,
     faulted |-> FALSE, threw |-> FALSE, ret |-> NoEntry]

MaxTicks == 2

\* the clock advances by a millisecond or by a day
TickSteps == {1, CACHE_DURATION_MS}

Tick(d) ==
    /\ ticks < MaxTicks
    /\ now' = now + d
    /\ ticks' = ticks + 1
    /\ api' = ApiNone
    /\ UNCHANGED <<storage, att, ui, page, lastGps>>
    /\ UNCHANGED <<gateVars, utilVars>>

(***************************************************************************)
(* Direct calls of the exported cache functions                            *)
(***************************************************************************)
ApiCoords ==
    { [latitude |-> 40, longitude |-> -75], [latitude |-> -90, longitude |-> 180],
      [latitude |-> 91, longitude |-> 0], [latitude |-> 0, longitude |-> -181] }
ApiNames == {"", "  ", "Philadelphia area", " Media area "}

ApiGetCached(f) ==
    LET r == getCachedLocation(storage, now, f) IN
    /\ storage' = r.storage
    /\ api' = [ApiNone EXCEPT !.op = "getCachedLocation", !.before = storage,
                              !.faulted = r.faulted, !.threw = r.threw,
                              !.ret = r.ret]
    /\ UNCHANGED <<now, ticks, att, ui, page, lastGps>>
    /\ UNCHANGED <<gateVars, utilVars>>

ApiCacheLocation(lat, lng, name, f) ==
    /\ storage' = cacheLocation(storage, now, lat, lng, name, f)
    /\ api' = [ApiNone EXCEPT !.op = "cacheLocation", !.lat = lat, !.lng = lng,
                              !.name = name, !.faulted = writeFaulted(lat, lng, name, f)]
    /\ UNCHANGED <<now, ticks, att, ui, page, lastGps>>
    /\ UNCHANGED <<gateVars, utilVars>>

\* cacheLocation(lat, lng, name) immediately followed by getCachedLocation()
ApiRoundTrip(lat, lng, name, f) ==
    LET w == cacheLocation(storage, now, lat, lng, name, f)
        r == getCachedLocation(w, now, f)
    IN
    /\ storage' = r.storage
    /\ api' = [ApiNone EXCEPT !.op = "roundTrip", !.lat = lat, !.lng = lng,
                              !.name = name,
                              !.faulted = writeFaulted(lat, lng, name, f) \/ r.faulted,
                              !.threw = r.threw, !.ret = r.ret]
    /\ UNCHANGED <<now, ticks, att, ui, page, lastGps>>
    /\ UNCHANGED <<gateVars, utilVars>>

ApiClearCache(f) ==
    /\ storage' = clearCache(storage, f)
    /\ api' = [ApiNone EXCEPT !.op = "clearCache", !.faulted = f.rm]
    /\ UNCHANGED <<now, ticks, att, ui, page, lastGps>>
    /\ UNCHANGED <<gateVars, utilVars>>

(***************************************************************************)
(* reverseGeocode and formatLocationName                                   *)
(***************************************************************************)
\* data.address of the geocoder's answer: parts are city, town, village,
\* municipality, county, state, country, in this order ("" when absent)
Address(parts, postcode) == [parts |-> parts, postcode |-> postcode]

RECURSIVE firstNonEmpty(_)
\* locationParts.find(part => part && part.trim())
firstNonEmpty(parts) ==
    IF parts = <<>> THEN ""
    ELSE IF trim(Head(parts)) # "" THEN Head(parts)
    ELSE firstNonEmpty(Tail(parts))

formatLocationName(address) ==
    LET primaryLocation == firstNonEmpty(address.parts) IN
    IF primaryLocation # "" THEN trim(primaryLocation) \o " area"
    ELSE IF address.postcode # "" THEN address.postcode \o " area"
    ELSE "Unknown location"

NoAddress == Address(<<"", "", "", "", "", "", "">>, "")

Addresses ==
    { Address(<<"  ", " Media ", "", "", "Delaware County", "PA", "US">>, "19063"),
      Address(<<"", "", "", "", "", "", "">>, " 19063"),
      NoAddress }

\* what the fetch of reverseGeocode ends with: the request fails, the answer is
\* not ok, the body has no address, or the body has one
GeoOutcomes ==
    { [kind |-> k, address |-> NoAddress] : k \in {"failed", "notOk", "noAddress"} }
    \cup { [kind |-> "address", address |-> a] : a \in Addresses }

\* reverseGeocode(lat, lng) before its fetch: TRUE iff it goes to the network
reverseGeocodeFetches(lat, lng) == isValidCoordinates(lat, lng)

\* reverseGeocode(lat, lng) once the fetch has ended with outcome o
reverseGeocode(lat, lng, o) ==
    IF ~isValidCoordinates(lat, lng) THEN "Invalid location"
    ELSE IF o.kind = "address" THEN formatLocationName(o.address)
    ELSE "Unknown location"

(***************************************************************************)
(* getLocationWithFallback: one call is one attempt                        *)
(***************************************************************************)
ErrNotAvailable == "Location services are not available on this device"
ErrDenied ==
    "Location access has been denied. Please enable location services in your browser settings."
ErrUnable ==
    "Unable to determine your location. Please check your location settings and try again."
ErrUnexpected == "An unexpected error occurred while getting your location."

NoData ==
    [present |-> FALSE, latitude |-> 0, longitude |-> 0, name |-> "", source |-> ""]

Pending ==
    [settled |-> "pending", success |-> FALSE, data |-> NoData,
     hasError |-> FALSE, error |-> ""]

\* { success: true, data: location }
SuccessResult(lat, lng, name, source) ==
    [settled |-> "fulfilled", success |-> TRUE,
     data |-> [present |-> TRUE, latitude |-> lat, longitude |-> lng,
               name |-> name, source |-> source],
     hasError |-> FALSE, error |-> ""]

\* { success: false, error: msg }
ErrorResult(msg) ==
    [settled |-> "fulfilled", success |-> FALSE, data |-> NoData,
     hasError |-> TRUE, error |-> msg]

\* the promise rejects
Rejected ==
    [settled |-> "rejected", success |-> FALSE, data |-> NoData,
     hasError |-> FALSE, error |-> ""]

\* getLocationWithFallback without its try/catch
fallbackCatch_none(threw, result) ==
    IF threw THEN Rejected ELSE result

\* try { ... } catch (error) { return { success: false, error: ... } } around
\* the whole body: an exception from inside becomes an error result
fallbackCatch(threw, result) ==
    IF threw THEN ErrorResult(ErrUnexpected) ELSE result

\* how a position request can fail (GeolocationPositionError.code, by name)
PositionErrors == {"PERMISSION_DENIED", "POSITION_UNAVAILABLE", "TIMEOUT"}

\* positions the device reports (latitude, longitude in range)
DevicePositions ==
    { [latitude |-> 40, longitude |-> -75] }

\* One call of getLocationWithFallback.  pc: where it waits (permission: for
\* navigator.permissions.query, probe: for the position request that stands
\* in for the Permissions API, position: for detectLocation's position
\* request, geocode: for reverseGeocode's fetch) or resolved: returned, the
\* caller not yet resumed.  available, permission, readFaulted, writeFaulted,
\* posError and log record what the platform answered and which calls the
\* attempt made, in order.
IdleAttempt ==
    [pc |-> "idle", latitude |-> 0, longitude |-> 0, available |-> TRUE,
     permission |-> "", readFaulted |-> FALSE, writeFaulted |-> FALSE,
     posError |-> "", log |-> <<>>, result |-> Pending]

resolved(a, result) == [a EXCEPT !.pc = "resolved", !.result = result]

\* the permission check left out
permissionBlocks_never(permission) == FALSE

\* if (permission === 'denied') return the error
permissionBlocks(permission) == permission = "denied"

\* requestLocationPermission() once navigator.permissions.query has ended:
\* the state it reports, 'prompt' when it threw
permissionOfQuery(outcome) ==
    IF outcome = "throws" THEN "prompt" ELSE outcome

\* requestLocationPermission() without the Permissions API, once the
\* getCurrentPosition({timeout: 1000}) it issues has called back
permissionOfProbe(outcome) ==
    IF outcome = "success" THEN "granted"
    ELSE IF outcome = "PERMISSION_DENIED" THEN "denied"
    ELSE "prompt"

\* getUserLocation asking the device before it looks at the cache
getUserLocation_noCache(a, st, t, f) ==
    [att |-> [a EXCEPT !.pc = "position", !.log = a.log \o <<"getCurrentPosition">>],
     storage |-> st]

\* getUserLocation() up to its first await: the cache is read; a hit returns
\* the entry tagged cache, a miss asks the device for a position
getUserLocation(a, st, t, f) ==
    LET c == getCachedLocation(st, t, f)
        b == [a EXCEPT !.log = a.log \o <<"getCachedLocation">>,
                       !.readFaulted = c.faulted]
    IN
    IF c.threw
    THEN [att |-> resolved(b, fallbackCatch(TRUE, Pending)), storage |-> c.storage]
    ELSE IF c.ret.kind = "entry"
    THEN [att |-> resolved(b, SuccessResult(c.ret.latitude, c.ret.longitude,
                                            c.ret.name, "cache")),
          storage |-> c.storage]
    ELSE [att |-> [b EXCEPT !.pc = "position",
                            !.log = b.log \o <<"getCurrentPosition">>],
          storage |-> c.storage]

\* getLocationWithFallback() after the permission state is known
afterPermission(a, permission, st, t, f) ==
    LET b == [a EXCEPT !.permission = permission] IN
    IF permissionBlocks(permission)
    THEN [att |-> resolved(b, ErrorResult(ErrDenied)), storage |-> st]
    ELSE getUserLocation(b, st, t, f)

\* getLocationWithFallback() up to its first await
startAttempt(available, permissionsApi) ==
    IF ~available
    THEN resolved([IdleAttempt EXCEPT !.available = FALSE],
                  ErrorResult(ErrNotAvailable))
    ELSE IF permissionsApi
    THEN [IdleAttempt EXCEPT !.pc = "permission", !.log = <<"query">>]
    ELSE [IdleAttempt EXCEPT !.pc = "probe", !.log = <<"probe">>]

\* detectLocation(): the error callback resolves null, and getUserLocation
\* returns null, whatever the error was
positionFailed(a, code) ==
    resolved([a EXCEPT !.posError = code], ErrorResult(ErrUnable))

\* getUserLocation() after the position arrived: reverseGeocode is called
positionArrived(a, pos) ==
    [a EXCEPT !.latitude = pos.latitude, !.longitude = pos.longitude,
              !.pc = "geocode",
              !.log = a.log \o (IF reverseGeocodeFetches(pos.latitude, pos.longitude)
                                THEN <<"reverseGeocode", "fetch">>
                                ELSE <<"reverseGeocode">>)]

\* getUserLocation() after reverseGeocode returned: cache, then return gps
geocoded(a, o, st, t, f) ==
    LET name == reverseGeocode(a.latitude, a.longitude, o)
    IN
    [att |-> resolved([a EXCEPT !.log = a.log \o <<"cacheLocation">>,
                                !.writeFaulted =
                                    writeFaulted(a.latitude, a.longitude, name, f)],
                      SuccessResult(a.latitude, a.longitude, name, "gps")),
     storage |-> cacheLocation(st, t, a.latitude, a.longitude, name, f)]

(***************************************************************************)
(* The pages: locationData and the handler of the detect button            *)
(* (profile-setup/page.tsx handleLocationDetection, profile/edit/page.tsx  *)
(* handleLocationUpdate, the profile set-up page handleDetectLocation)     *)
(***************************************************************************)
Pages == {"profile-setup", "profile-edit", "setup-wizard"}

UiIdle ==
    [state |-> "idle", name |-> "", hasCoords |-> FALSE, latitude |-> 0,
     longitude |-> 0, error |-> ""]

UiLoading == [UiIdle EXCEPT !.state = "loading"]

UiSuccess(name, lat, lng) ==
    [UiIdle EXCEPT !.state = "success", !.name = name, !.hasCoords = TRUE,
                   !.latitude = lat, !.longitude = lng]

UiError(msg) == [UiIdle EXCEPT !.state = "error", !.error = msg]

\* the catch block of the handler
caughtMessage(p) ==
    IF p = "profile-setup" THEN "Something went wrong. Please try again."
    ELSE "An unexpected error occurred"

\* the handler leaving LOADING in place when the result is an error
handleResult_stuck(p, result) ==
    IF result.settled = "fulfilled" /\ result.success /\ result.data.present
    THEN UiSuccess(result.data.name, result.data.latitude, result.data.longitude)
    ELSE UiLoading

\* the handler after `await LocationService.getLocationWithFallback()`
handleResult(p, result) ==
    IF result.settled = "rejected" THEN UiError(caughtMessage(p))
    ELSE IF result.success /\ result.data.present
    THEN UiSuccess(result.data.name, result.data.latitude, result.data.longitude)
    ELSE UiError(IF result.hasError /\ result.error # "" THEN result.error
                 ELSE "Failed to detect location")

\* a detect button that is never disabled
buttonEnabled_always(u) == TRUE

\* disabled={locationData.state === LocationState.LOADING} on two pages; the
\* third renders a button in the states IDLE, SUCCESS and ERROR only
buttonEnabled(u) == u.state # "loading"

MaxInFlight == 1

Slots == 1..MaxInFlight

FreeSlots == {s \in DOMAIN att : att[s].pc = "idle"}

NoGps ==
    [set |-> FALSE, latitude |-> 0, longitude |-> 0, name |-> "", at |-> 0]

\* a cache read that changes the stored value ends what lastGps records
gpsAfterRead(st2) == IF st2 # storage THEN NoGps ELSE lastGps

\* the user presses the detect button: the handler sets LOADING and calls
\* getLocationWithFallback, which runs up to its first await
DetectClick(available, permissionsApi) ==
    /\ buttonEnabled(ui)
    /\ FreeSlots # {}
    /\ LET s == CHOOSE x \in FreeSlots : \A y \in FreeSlots : x <= y IN
       att' = [att EXCEPT ![s] = startAttempt(available, permissionsApi)]
    /\ ui' = UiLoading
    /\ UNCHANGED <<storage, now, ticks, page, api, lastGps>>
    /\ UNCHANGED <<gateVars, utilVars>>

PermissionOutcomes == {"granted", "denied", "prompt", "throws"}

\* navigator.permissions.query settles
PermissionResult(s, outcome, f) ==
    /\ att[s].pc = "permission"
    /\ LET r == afterPermission(att[s], permissionOfQuery(outcome), storage, now, f) IN
       /\ att' = [att EXCEPT ![s] = r.att]
       /\ storage' = r.storage
       /\ lastGps' = gpsAfterRead(r.storage)
    /\ UNCHANGED <<now, ticks, ui, page, api>>
    /\ UNCHANGED <<gateVars, utilVars>>

ProbeOutcomes == {"success"} \cup PositionErrors

\* the position request of requestLocationPermission calls back
ProbeResult(s, outcome, f) ==
    /\ att[s].pc = "probe"
    /\ LET r == afterPermission(att[s], permissionOfProbe(outcome), storage, now, f) IN
       /\ att' = [att EXCEPT ![s] = r.att]
       /\ storage' = r.storage
       /\ lastGps' = gpsAfterRead(r.storage)
    /\ UNCHANGED <<now, ticks, ui, page, api>>
    /\ UNCHANGED <<gateVars, utilVars>>

\* the success callback of detectLocation's position request
PositionOk(s, pos) ==
    /\ att[s].pc = "position"
    /\ att' = [att EXCEPT ![s] = positionArrived(att[s], pos)]
    /\ UNCHANGED <<storage, now, ticks, ui, page, api, lastGps>>
    /\ UNCHANGED <<gateVars, utilVars>>

\* the error callback of detectLocation's position request
PositionError(s, code) ==
    /\ att[s].pc = "position"
    /\ att' = [att EXCEPT ![s] = positionFailed(att[s], code)]
    /\ UNCHANGED <<storage, now, ticks, ui, page, api, lastGps>>
    /\ UNCHANGED <<gateVars, utilVars>>

\* the fetch of reverseGeocode ends; the rest of getUserLocation runs
GeocodeResult(s, o, f) ==
    /\ att[s].pc = "geocode"
    /\ LET r == geocoded(att[s], o, storage, now, f)
           d == r.att.result.data
       IN
       /\ att' = [att EXCEPT ![s] = r.att]
       /\ storage' = r.storage
       /\ lastGps' = IF writeFaulted(d.latitude, d.longitude, d.name, f)
                      THEN lastGps
                      ELSE [set |-> TRUE, latitude |-> d.latitude,
                            longitude |-> d.longitude, name |-> d.name, at |-> now]
    /\ UNCHANGED <<now, ticks, ui, page, api>>
    /\ UNCHANGED <<gateVars, utilVars>>

\* the handler resumes with the result and sets SUCCESS or ERROR
Deliver(s) ==
    /\ att[s].pc = "resolved"
    /\ ui' = handleResult(page, att[s].result)
    /\ att' = [att EXCEPT ![s] = IdleAttempt]
    /\ UNCHANGED <<storage, now, ticks, page, api, lastGps>>
    /\ UNCHANGED <<gateVars, utilVars>>

\* profile/edit/page.tsx: the effect on [user] shows the stored home location
\* whenever the auth context hands the page a new user object
HomeName == "Home area"
HomePosition == [latitude |-> 40, longitude |-> -75]

UserEffect ==
    /\ page = "profile-edit"
    /\ ui' = UiSuccess(HomeName, HomePosition.latitude, HomePosition.longitude)
    /\ UNCHANGED <<storage, now, ticks, att, page, api, lastGps>>
    /\ UNCHANGED <<gateVars, utilVars>>

(***************************************************************************)
(* Phone validation and formatting: src/lib/services/location.ts           *)
(***************************************************************************)
Digits == "0123456789"

\* \d
isDigit(c) == \E i \in 1..Len(Digits) : charAt(Digits, i) = c

\* /^\d+$/.test(s)
allDigits(s) == s # "" /\ \A i \in 1..Len(s) : isDigit(charAt(s, i))

\* String.prototype.slice(from) and slice(from, to), indices counted from 0
slice(s, from) == SubSeq(s, from + 1, Len(s))

sliceTo(s, from, to) == SubSeq(s, from + 1, IF to < Len(s) THEN to ELSE Len(s))

\* s.replace(/[^\d+]/g, '')
RECURSIVE keepDigitsAndPlus(_)
keepDigitsAndPlus(s) ==
    IF s = "" THEN ""
    ELSE (IF isDigit(charAt(s, 1)) \/ charAt(s, 1) = "+" THEN charAt(s, 1) ELSE "")
         \o keepDigitsAndPlus(SubSeq(s, 2, Len(s)))

\* s.replace(/\D/g, '')
RECURSIVE onlyDigits(_)
onlyDigits(s) ==
    IF s = "" THEN ""
    ELSE (IF isDigit(charAt(s, 1)) THEN charAt(s, 1) ELSE "")
         \o onlyDigits(SubSeq(s, 2, Len(s)))

\* ValidationResult; message is "" where the code leaves it undefined
ValidationResult(valid, message) == [valid |-> valid, message |-> message]

\* the length check applied to the untrimmed string's tail
validatePhoneNumber_noTrim(phone) ==
    IF phone = ""
    THEN ValidationResult(FALSE, "Phone number is required")
    ELSE IF ~startsWith(phone, "+")
    THEN ValidationResult(FALSE, "Phone number must include country code (e.g., +1)")
    ELSE IF ~allDigits(slice(phone, 1))
    THEN ValidationResult(FALSE, "Phone number can only contain digits after the country code")
    ELSE IF Len(slice(phone, 1)) < 10 \/ Len(slice(phone, 1)) > 15
    THEN ValidationResult(FALSE, "Phone number must be 10-15 digits long")
    ELSE ValidationResult(TRUE, "")

\* phone is a string (the parameter's type); "" is the falsy one
validatePhoneNumber(phone) ==
    IF phone = ""
    THEN ValidationResult(FALSE, "Phone number is required")
    ELSE LET trimmed == trim(phone)
             digits  == slice(trimmed, 1)
         IN  IF ~startsWith(trimmed, "+")
             THEN ValidationResult(FALSE, "Phone number must include country code (e.g., +1)")
             ELSE IF ~allDigits(digits)
             THEN ValidationResult(FALSE, "Phone number can only contain digits after the country code")
             ELSE IF Len(digits) < 10 \/ Len(digits) > 15
             THEN ValidationResult(FALSE, "Phone number must be 10-15 digits long")
             ELSE ValidationResult(TRUE, "")

\* no truncation after the tenth digit
formatUSPhone_keepAll(digits) ==
    IF Len(digits) = 0 THEN ""
    ELSE IF Len(digits) <= 3 THEN "(" \o digits
    ELSE IF Len(digits) <= 6 THEN "(" \o sliceTo(digits, 0, 3) \o ") " \o slice(digits, 3)
    ELSE "(" \o sliceTo(digits, 0, 3) \o ") " \o sliceTo(digits, 3, 6) \o "-" \o slice(digits, 6)

formatUSPhone(digits) ==
    IF Len(digits) = 0 THEN ""
    ELSE IF Len(digits) <= 3 THEN "(" \o digits
    ELSE IF Len(digits) <= 6 THEN "(" \o sliceTo(digits, 0, 3) \o ") " \o slice(digits, 3)
    ELSE IF Len(digits) <= 10
    THEN "(" \o sliceTo(digits, 0, 3) \o ") " \o sliceTo(digits, 3, 6) \o "-" \o slice(digits, 6)
    ELSE "(" \o sliceTo(digits, 0, 3) \o ") " \o sliceTo(digits, 3, 6) \o "-"
             \o sliceTo(digits, 6, 10)

formatPhoneAsUserTypes(input) ==
    IF input = "" THEN ""
    ELSE LET cleaned == keepDigitsAndPlus(input)
         IN  IF startsWith(cleaned, "+")
             THEN LET rest == slice(cleaned, 1)
                  IN  IF startsWith(rest, "1") /\ Len(rest) <= 11
                      THEN formatUSPhone(slice(rest, 1))
                      ELSE "+" \o rest
             ELSE formatUSPhone(cleaned)

\* (AAA) EEE-NNNN of ten digits
renderUS(digits) ==
    "(" \o sliceTo(digits, 0, 3) \o ") " \o sliceTo(digits, 3, 6) \o "-" \o slice(digits, 6)

formatPhoneForDisplay(phone) ==
    IF phone = "" THEN ""
    ELSE LET cleaned == onlyDigits(phone)
         IN  IF Len(cleaned) = 11 /\ startsWith(cleaned, "1")
             THEN "(" \o sliceTo(cleaned, 1, 4) \o ") " \o sliceTo(cleaned, 4, 7) \o "-"
                      \o slice(cleaned, 7)
             ELSE IF Len(cleaned) = 10
             THEN "(" \o sliceTo(cleaned, 0, 3) \o ") " \o sliceTo(cleaned, 3, 6) \o "-"
                      \o slice(cleaned, 6)
             ELSE phone

\* ten digits get the country code without the +
parsePhoneToE164_bare(input) ==
    IF input = "" THEN ""
    ELSE LET cleaned == keepDigitsAndPlus(input)
             digits  == onlyDigits(cleaned)
         IN  IF startsWith(cleaned, "+") THEN cleaned
             ELSE IF Len(digits) = 10 THEN "1" \o digits
             ELSE IF Len(digits) = 11 /\ startsWith(digits, "1") THEN "+" \o digits
             ELSE input

parsePhoneToE164(input) ==
    IF input = "" THEN ""
    ELSE LET cleaned == keepDigitsAndPlus(input)
             digits  == onlyDigits(cleaned)
         IN  IF startsWith(cleaned, "+") THEN cleaned
             ELSE IF Len(digits) = 10 THEN "+1" \o digits
             ELSE IF Len(digits) = 11 /\ startsWith(digits, "1") THEN "+" \o digits
             ELSE input

isPhoneComplete(input) ==
    LET e164   == parsePhoneToE164(input)
        digits == onlyDigits(e164)
    IN  Len(digits) = 11 /\ startsWith(digits, "1")

\* The strings the functions are called with: a prefix, a run of digits and
\* a suffix, and values as the masked input field holds them.
MaxDigits == 16

DigitSource == "5551234567890123456789"

digitRun(n) == SubSeq(DigitSource, 1, n)

PhonePrefixes == {"", "+", "+1", "1", " +"}

PhoneSuffixes == {"", " ", "a"}

MaskedInputs ==
    {"(555) 123-4567", "(555) 123-45678", "+1 (555) 123-4567", "555+1234567",
     "+1+5551234", "(555", "(555) 1", " ", "+ 15551234567", "+1555 1234567",
     "+445551234567", "+1-555-123-4567", "+1+5551234567", "555-123-4567"}

PhoneInputs ==
    {p \o digitRun(n) \o s : p \in PhonePrefixes, n \in 0..MaxDigits, s \in PhoneSuffixes}
        \cup MaskedInputs

\* function, argument and outcome of the last call
PhoneNone == [fn |-> "none", input |-> "", valid |-> FALSE, message |-> "", output |-> ""]

CallValidatePhoneNumber(input) ==
    /\ phoneCall' = [PhoneNone EXCEPT !.fn = "validatePhoneNumber", !.input = input,
                                  !.valid = validatePhoneNumber(input).valid,
                                  !.message = validatePhoneNumber(input).message]
    /\ UNCHANGED <<retry, call, install, login, edit>>
    /\ UNCHANGED <<gateVars, locVars>>

CallFormatPhoneAsUserTypes(input) ==
    /\ phoneCall' = [PhoneNone EXCEPT !.fn = "formatPhoneAsUserTypes", !.input = input,
                                  !.output = formatPhoneAsUserTypes(input)]
    /\ UNCHANGED <<retry, call, install, login, edit>>
    /\ UNCHANGED <<gateVars, locVars>>

CallFormatPhoneForDisplay(input) ==
    /\ phoneCall' = [PhoneNone EXCEPT !.fn = "formatPhoneForDisplay", !.input = input,
                                      !.output = formatPhoneForDisplay(input)]
    /\ UNCHANGED <<retry, call, install, login, edit>>
    /\ UNCHANGED <<gateVars, locVars>>

CallParsePhoneToE164(input) ==
    /\ phoneCall' = [PhoneNone EXCEPT !.fn = "parsePhoneToE164", !.input = input,
                                      !.output = parsePhoneToE164(input)]
    /\ UNCHANGED <<retry, call, install, login, edit>>
    /\ UNCHANGED <<gateVars, locVars>>

CallIsPhoneComplete(input) ==
    /\ phoneCall' = [PhoneNone EXCEPT !.fn = "isPhoneComplete", !.input = input,
                                      !.valid = isPhoneComplete(input),
                                      !.output = parsePhoneToE164(input)]
    /\ UNCHANGED <<retry, call, install, login, edit>>
    /\ UNCHANGED <<gateVars, locVars>>

(***************************************************************************)
(* Install prompt: src/components/InstallPrompt.tsx                        *)
(***************************************************************************)
DayMs == 1000 * 60 * 60 * 24

\* Number.prototype.toString of a natural number
RECURSIVE numberToString(_)
numberToString(n) ==
    IF n < 10 THEN charAt(Digits, n + 1)
    ELSE numberToString(n \div 10) \o charAt(Digits, (n % 10) + 1)

digitValue(c) == (CHOOSE i \in 1..Len(Digits) : charAt(Digits, i) = c) - 1

\* the digits that s starts with
RECURSIVE leadingDigits(_)
leadingDigits(s) ==
    IF s # "" /\ isDigit(charAt(s, 1))
    THEN charAt(s, 1) \o leadingDigits(SubSeq(s, 2, Len(s)))
    ELSE ""

RECURSIVE digitsValue(_)
digitsValue(s) ==
    IF s = "" THEN 0
    ELSE digitsValue(SubSeq(s, 1, Len(s) - 1)) * 10 + digitValue(charAt(s, Len(s)))

\* parseInt(s) of a string without sign and leading white space: NaN when it
\* does not start with a digit
parseInt(s) ==
    [nan |-> leadingDigits(s) = "", value |-> digitsValue(leadingDigits(s))]

\* the component and its surroundings.  standalone: the display mode or
\* navigator.standalone says installed; dismissed: the value stored under
\* 'pwa-install-dismissed', "" when the key is absent; isInstalled,
\* showPrompt, deferredPrompt: the state of the component (deferredPrompt is
\* TRUE when an event is held); event: the handler that ran at this instant,
\* none when the clock has moved since;
\* lastDismissAt: the time of the last dismissal, -1 when there was none.
InstallState(standalone, dismissed, clock, lastDismissAt) ==
    [mounted |-> FALSE, standalone |-> standalone, dismissed |-> dismissed,
     isInstalled |-> FALSE, showPrompt |-> FALSE, deferredPrompt |-> FALSE,
     clock |-> clock, ticks |-> 0, event |-> "none", lastDismissAt |-> lastDismissAt]

InstallIdle == InstallState(FALSE, "", DayMs, -1)

\* checkInstallationStatus(): the state after the call and the value returned
checkInstallationStatus(i) ==
    IF i.standalone
    THEN [state |-> [i EXCEPT !.isInstalled = TRUE], returns |-> TRUE]
    ELSE IF i.dismissed # ""
    THEN LET dismissTime == parseInt(i.dismissed)
             recent == ~dismissTime.nan /\ i.clock - dismissTime.value < 7 * DayMs
         IN  IF recent
             THEN [state |-> i, returns |-> FALSE]
             ELSE [state |-> [i EXCEPT !.dismissed = ""], returns |-> FALSE]
    ELSE [state |-> i, returns |-> FALSE]

\* the effect on mount: the listeners are added and the status is checked
mountEffect(i) ==
    [checkInstallationStatus(i).state EXCEPT !.mounted = TRUE, !.event = "mount"]

handleBeforeInstallPrompt(i) ==
    LET checked == checkInstallationStatus([i EXCEPT !.deferredPrompt = TRUE])
    IN  [checked.state EXCEPT
            !.showPrompt = IF ~checked.returns THEN TRUE ELSE @,
            !.event = "beforeinstallprompt"]

handleAppInstalled(i) ==
    [i EXCEPT !.isInstalled = TRUE, !.showPrompt = FALSE, !.deferredPrompt = FALSE,
              !.dismissed = "", !.event = "appinstalled"]

handleDismiss(i) ==
    [i EXCEPT !.showPrompt = FALSE, !.deferredPrompt = FALSE,
              !.dismissed = numberToString(i.clock),
              !.lastDismissAt = i.clock, !.event = "dismiss"]

\* handleInstall() once the user has answered the browser's dialog; prompt()
\* throwing is the outcome "error"
handleInstall(i, outcome) ==
    IF ~i.deferredPrompt THEN [i EXCEPT !.event = "install"]
    ELSE IF outcome = "accepted" THEN [i EXCEPT !.event = "install"]
    ELSE handleDismiss(i)

triggerInstallPrompt(i) ==
    [i EXCEPT !.showPrompt = IF i.deferredPrompt /\ ~i.isInstalled THEN TRUE ELSE @,
              !.event = "trigger"]

\* the modal is on the screen
promptVisible(i) == i.mounted /\ ~i.isInstalled /\ i.showPrompt

MaxInstallTicks == 3

InstallTickSteps == {1, DayMs, 7 * DayMs - 1}

\* the clock stops here
InstallHorizon == 16 * DayMs

InstallOutcomes == {"accepted", "dismissed", "error"}

Mount ==
    /\ ~install.mounted
    /\ install' = mountEffect(install)
    /\ UNCHANGED <<gateVars, locVars, retry, call, phoneCall, login, edit>>

BeforeInstallPrompt ==
    /\ install.mounted
    /\ install' = handleBeforeInstallPrompt(install)
    /\ UNCHANGED <<gateVars, locVars, retry, call, phoneCall, login, edit>>

AppInstalled ==
    /\ install.mounted
    /\ install' = handleAppInstalled(install)
    /\ UNCHANGED <<gateVars, locVars, retry, call, phoneCall, login, edit>>

DismissClick ==
    /\ promptVisible(install)
    /\ install' = handleDismiss(install)
    /\ UNCHANGED <<gateVars, locVars, retry, call, phoneCall, login, edit>>

InstallClick(outcome) ==
    /\ promptVisible(install)
    /\ install' = handleInstall(install, outcome)
    /\ UNCHANGED <<gateVars, locVars, retry, call, phoneCall, login, edit>>

TriggerInstallPrompt ==
    /\ install.mounted
    /\ install' = triggerInstallPrompt(install)
    /\ UNCHANGED <<gateVars, locVars, retry, call, phoneCall, login, edit>>

InstallTick(d) ==
    /\ install.ticks < MaxInstallTicks
    /\ install.clock + d <= InstallHorizon
    /\ install' = [install EXCEPT !.clock = @ + d, !.ticks = @ + 1, !.event = "none"]
    /\ UNCHANGED <<gateVars, locVars, retry, call, phoneCall, login, edit>>

(***************************************************************************)
(* Error utilities: src/lib/utils/errors.ts                                *)
(***************************************************************************)
UpperCase == "ABCDEFGHIJKLMNOPQRSTUVWXYZ"
LowerCase == "abcdefghijklmnopqrstuvwxyz"

\* String.prototype.toLowerCase of one character
lowerChar(c) ==
    IF \E i \in 1..Len(UpperCase) : charAt(UpperCase, i) = c
    THEN charAt(LowerCase, CHOOSE i \in 1..Len(UpperCase) : charAt(UpperCase, i) = c)
    ELSE c

RECURSIVE toLowerCase(_)
toLowerCase(s) ==
    IF s = "" THEN "" ELSE lowerChar(charAt(s, 1)) \o toLowerCase(SubSeq(s, 2, Len(s)))

\* String.prototype.includes
includes(s, sub) ==
    \E i \in 1..(Len(s) - Len(sub) + 1) : SubSeq(s, i, i + Len(sub) - 1) = sub

includesAny(s, subs) == \E sub \in subs : includes(s, sub)

\* The values that are thrown and classified.  kind is null, undefined,
\* string (the primitive text), object (a plain object such as a parsed
\* response body) or Error (an instance of Error).  A property that is
\* undefined is "" (message, name, code, field) or 0 (status): the code reads
\* them only through ||, ?., === and range comparisons, which treat both alike.
ErrorValue(kind, text, name, message, code, status, field) ==
    [kind |-> kind, text |-> text, name |-> name, message |-> message,
     code |-> code, status |-> status, field |-> field]

JsNull == ErrorValue("null", "", "", "", "", 0, "")
JsUndefined == ErrorValue("undefined", "", "", "", "", 0, "")
JsString(text) == ErrorValue("string", text, "", "", "", 0, "")
PlainObject(message, code, status, field) ==
    ErrorValue("object", "", "", message, code, status, field)
JsError(name, message, code, status) ==
    ErrorValue("Error", "", name, message, code, status, "")

\* error is null or undefined: reading a property of it throws a TypeError
nullish(e) == e.kind \in {"null", "undefined"}

\* !error is false
truthy(e) == ~nullish(e) /\ ~(e.kind = "string" /\ e.text = "")

\* error.toString(): the primitive itself, Object.prototype.toString, or
\* Error.prototype.toString (name, message, or "name: message")
toStringOf(e) ==
    IF e.kind = "string" THEN e.text
    ELSE IF e.kind = "object" THEN "[object Object]"
    ELSE IF e.message = "" THEN e.name
    ELSE IF e.name = "" THEN e.message
    ELSE e.name \o ": " \o e.message

\* error.toString().toLowerCase()
errorStringOf(e) == toLowerCase(toStringOf(e))

\* error.message?.toLowerCase() || ''
errorMessageOf(e) == toLowerCase(e.message)

matchesNetwork(e) ==
    \/ includesAny(errorStringOf(e), {"network", "fetch", "connection", "timeout"})
    \/ e.code \in {"NETWORK_ERROR", "TIMEOUT"}
    \/ (e.status >= 500 /\ e.status < 600)

matchesAuthentication(e) ==
    \/ includesAny(errorStringOf(e),
                   {"unauthorized", "forbidden", "authentication", "session"})
    \/ e.status \in {401, 403}
    \/ e.code \in {"AUTH_ERROR", "SESSION_EXPIRED"}

matchesPermission(e) ==
    \/ includesAny(errorStringOf(e), {"permission", "denied", "blocked"})
    \/ e.name \in {"NotAllowedError", "PermissionDeniedError"}

matchesPhone(e, context) ==
    \/ includes(context, "phone")
    \/ includes(errorStringOf(e), "phone")
    \/ includes(errorMessageOf(e), "phone")
    \/ e.code \in {"INVALID_PHONE", "PHONE_ALREADY_EXISTS"}

matchesValidation(e) ==
    \/ includesAny(errorStringOf(e), {"validation", "invalid", "required"})
    \/ e.status = 400
    \/ e.code = "VALIDATION_ERROR"

matchesData(e) ==
    \/ includesAny(errorStringOf(e), {"not found", "does not exist"})
    \/ e.status = 404
    \/ e.code \in {"NOT_FOUND", "PROFILE_NOT_FOUND"}

ErrorTypes ==
    {"NETWORK", "VALIDATION", "AUTHENTICATION", "PERMISSION", "DATA", "PHONE", "UNKNOWN"}

\* detectErrorType with the PHONE check ahead of the PERMISSION check
detectErrorType_phoneFirst(e, context) ==
    IF ~truthy(e) THEN "UNKNOWN"
    ELSE IF matchesNetwork(e) THEN "NETWORK"
    ELSE IF matchesAuthentication(e) THEN "AUTHENTICATION"
    ELSE IF matchesPhone(e, context) THEN "PHONE"
    ELSE IF matchesPermission(e) THEN "PERMISSION"
    ELSE IF matchesValidation(e) THEN "VALIDATION"
    ELSE IF matchesData(e) THEN "DATA"
    ELSE "UNKNOWN"

\* detectErrorType(error, context); context "" is no context
detectErrorType(e, context) ==
    IF ~truthy(e) THEN "UNKNOWN"
    ELSE IF matchesNetwork(e) THEN "NETWORK"
    ELSE IF matchesAuthentication(e) THEN "AUTHENTICATION"
    ELSE IF matchesPermission(e) THEN "PERMISSION"
    ELSE IF matchesPhone(e, context) THEN "PHONE"
    ELSE IF matchesValidation(e) THEN "VALIDATION"
    ELSE IF matchesData(e) THEN "DATA"
    ELSE "UNKNOWN"

\* ERROR_MESSAGES[type].retryable with every type retryable
retryableType_all(type) == TRUE

\* ERROR_MESSAGES[type].retryable
retryableType(type) == type \in {"NETWORK", "DATA", "UNKNOWN"}

\* ERROR_MESSAGES[type].userMessage
baseUserMessage(type) ==
    CASE type = "NETWORK" -> "Network connection issue. Please check your internet connection."
      [] type = "VALIDATION" -> "Please check your input and try again."
      [] type = "AUTHENTICATION" -> "Your session has expired. Please log in again."
      [] type = "PERMISSION" -> "Permission required to continue."
      [] type = "DATA" -> "Unable to load your data. Please try again."
      [] type = "PHONE" -> "Please enter a valid phone number with country code (e.g., +1 555-555-5555)"
      [] OTHER -> "Something went wrong. Please try again."

\* ERROR_MESSAGES[type].actionable
baseActionable(type) ==
    CASE type = "NETWORK" -> "Try again or check your internet connection."
      [] type = "VALIDATION" -> "Review the highlighted fields and correct any errors."
      [] type = "AUTHENTICATION" -> "Please log in again to continue."
      [] type = "PERMISSION" -> "Please allow the requested permission in your browser settings."
      [] type = "DATA" -> "Refresh the page or try again later."
      [] type = "PHONE" -> "Make sure your phone number includes the country code and is in the correct format."
      [] OTHER -> "If the problem persists, please contact support."

\* getPhoneSpecificError(error)
getPhoneSpecificError(e) ==
    LET m == errorMessageOf(e) IN
    IF includesAny(m, {"already", "exists"}) \/ e.code = "PHONE_ALREADY_EXISTS"
    THEN [message |-> "This phone number is already registered. Try logging in instead.",
          actionable |-> "Try logging in instead, or contact support if you forgot your password."]
    ELSE IF includesAny(m, {"country", "code"}) \/ e.code = "INVALID_COUNTRY_CODE"
    THEN [message |-> "Please include a valid country code (e.g., +1 for US)",
          actionable |-> "Make sure to include your country code (e.g., +1 for US, +44 for UK)."]
    ELSE IF includesAny(m, {"short", "length"}) \/ e.code = "PHONE_TOO_SHORT"
    THEN [message |-> "Phone number is too short. Please include the full number with country code.",
          actionable |-> "Include the full phone number with country code."]
    ELSE IF includes(m, "long") \/ e.code = "PHONE_TOO_LONG"
    THEN [message |-> "Phone number is too long. Please check the format.",
          actionable |-> "Check that your phone number is in the correct format."]
    ELSE IF includesAny(m, {"invalid", "character"}) \/ e.code = "INVALID_CHARACTERS"
    THEN [message |-> "Phone number contains invalid characters. Use only numbers and + sign.",
          actionable |-> "Use only numbers and the + sign for country code."]
    ELSE [message |-> "Please enter a valid phone number with country code (e.g., +1 555-555-5555)",
          actionable |-> "Make sure your phone number includes the country code and is in the correct format."]

\* the value getValidationSpecificError returns when no field is recognised
NoSpecificError == [message |-> "", actionable |-> ""]

\* getValidationSpecificError(error); NoSpecificError is null
getValidationSpecificError(e) ==
    LET m == errorMessageOf(e) IN
    IF e.field = "name" \/ includes(m, "name")
    THEN [message |-> "Please enter a valid name.",
          actionable |-> "Name should be at least 2 characters long and contain only letters."]
    ELSE IF e.field = "email" \/ includes(m, "email")
    THEN [message |-> "Please enter a valid email address.",
          actionable |-> "Make sure your email address is in the correct format (e.g., user@example.com)."]
    ELSE IF e.field = "password" \/ includes(m, "password")
    THEN [message |-> "Password must be at least 6 characters long.",
          actionable |-> "Choose a password with at least 6 characters."]
    ELSE NoSpecificError

\* what a call of createErrorInfo comes to: it throws a TypeError, or returns
\* an ErrorInfo
InfoThrown ==
    [threw |-> TRUE, type |-> "", message |-> "", userMessage |-> "",
     actionable |-> "", retryable |-> FALSE]

ErrorInfo(type, message, userMessage, actionable, retryable) ==
    [threw |-> FALSE, type |-> type, message |-> message,
     userMessage |-> userMessage, actionable |-> actionable, retryable |-> retryable]

\* createErrorInfo(error, context, customUserMessage); "" is an argument left
\* out.  After detectErrorType has returned UNKNOWN for null or undefined,
\* error.message is read and throws.
createErrorInfo(e, context, customUserMessage) ==
    LET type == detectErrorType(e, context)
        specific == getValidationSpecificError(e)
        userMessage ==
            IF type = "PHONE" THEN getPhoneSpecificError(e).message
            ELSE IF type = "VALIDATION" /\ specific # NoSpecificError THEN specific.message
            ELSE IF customUserMessage # "" THEN customUserMessage
            ELSE baseUserMessage(type)
        actionable ==
            IF type = "PHONE" THEN getPhoneSpecificError(e).actionable
            ELSE IF type = "VALIDATION" /\ specific # NoSpecificError THEN specific.actionable
            ELSE baseActionable(type)
    IN
    IF nullish(e)
    THEN InfoThrown
    ELSE ErrorInfo(type,
                   IF e.message # "" THEN e.message ELSE toStringOf(e),
                   userMessage, actionable, retryableType(type))

\* the errors handed to the utilities
ErrorValues ==
    { JsNull, JsUndefined, JsString(""),
      JsString("Network request failed"),
      JsString("Invalid phone number"),
      JsError("Error", "boom", "", 0),
      JsError("TypeError", "Failed to fetch", "", 0),
      JsError("Error", "Request failed", "", 401),
      JsError("Error", "Session expired after connection timeout", "", 0),
      JsError("NotAllowedError", "User denied Geolocation", "", 0),
      JsError("NotAllowedError", "", "", 0),
      JsError("Error", "Phone permission blocked", "", 0),
      JsError("Error", "Phone number already exists", "", 0),
      JsError("Error", "Invalid email", "", 0),
      JsError("Error", "Name is required", "", 404),
      JsError("Error", "Profile not found", "", 0),
      PlainObject("", "", 401, ""),
      PlainObject("", "", 503, ""),
      PlainObject("network down", "", 0, ""),
      PlainObject("Phone too short", "", 0, ""),
      PlainObject("rejected", "VALIDATION_ERROR", 404, "password"),
      PlainObject("", "PHONE_ALREADY_EXISTS", 403, ""),
      PlainObject("", "", 0, "") }

ErrorContexts == {"", "profile", "phone-login"}

CustomMessages == {"", "Could not save your profile."}

\* function, arguments and outcome of the last call
CallNone ==
    [fn |-> "none", error |-> JsNull, context |-> "", custom |-> "", type |-> "",
     info |-> InfoThrown]

CallDetectErrorType(e, context) ==
    /\ call' = [CallNone EXCEPT !.fn = "detectErrorType", !.error = e,
                                !.context = context,
                                !.type = detectErrorType(e, context)]
    /\ UNCHANGED <<retry, phoneCall, install, login, edit>>
    /\ UNCHANGED <<gateVars, locVars>>

CallCreateErrorInfo(e, context, custom) ==
    /\ call' = [CallNone EXCEPT !.fn = "createErrorInfo", !.error = e,
                                !.context = context, !.custom = custom,
                                !.info = createErrorInfo(e, context, custom)]
    /\ UNCHANGED <<retry, phoneCall, install, login, edit>>
    /\ UNCHANGED <<gateVars, locVars>>

(***************************************************************************)
(* retryOperation(operation, options)                                      *)
(***************************************************************************)
MaxAttempts == 3

\* options.maxAttempts, options.delay, options.backoff
RetryMaxAttempts == 0..MaxAttempts
RetryDelays == {10}

\* what the operation throws: one error of each class
RetryErrors ==
    { JsError("TypeError", "Failed to fetch", "", 0),
      JsError("Error", "Profile not found", "", 0),
      JsError("Error", "boom", "", 0),
      JsError("Error", "Invalid email", "", 0),
      JsError("Error", "Request failed", "", 401),
      JsError("NotAllowedError", "User denied Geolocation", "", 0),
      JsString("Invalid phone number") }

\* what the operation resolves with
RetryValues == {"profile", "feed"}

\* how long an invocation takes, and how late a timer fires (milliseconds)
OpDurations == {0, 5}
TimerLateness == {0, 3}

Unsettled == [settled |-> "pending", value |-> "", error |-> JsUndefined]
Fulfilled(v) == [settled |-> "fulfilled", value |-> v, error |-> JsUndefined]
RejectedWith(e) == [settled |-> "rejected", value |-> "", error |-> e]

\* errorType is the local variable of that name in the catch block
Returned(v) == [ok |-> TRUE, value |-> v, error |-> JsUndefined, errorType |-> ""]
Threw(e, errorType) == [ok |-> FALSE, value |-> "", error |-> e, errorType |-> errorType]

\* pc: idle, invoked (awaiting operation()), waiting (awaiting the timer),
\* settled.  attempt is the loop variable, lastError the variable of that
\* name.  outcomes, starts, ends and waits record, per invocation, what it came
\* to, when it started, when it ended, and the setTimeout delay that followed.
RetryIdle ==
    [pc |-> "idle", maxAttempts |-> 0, delay |-> 0, backoff |-> FALSE,
     attempt |-> 0, lastError |-> JsUndefined, clock |-> 0, due |-> 0,
     outcomes |-> <<>>, starts |-> <<>>, ends |-> <<>>, waits |-> <<>>,
     result |-> Unsettled]

\* delay without backoff, whatever options.backoff says
retryDelay_flat(delay, backoff, attempt) == delay

\* options.backoff ? options.delay * Math.pow(2, attempt - 1) : options.delay
retryDelay(delay, backoff, attempt) ==
    IF backoff THEN delay * 2^(attempt - 1) ELSE delay

\* the loop given up one attempt early
attemptsExhausted_early(attempt, maxAttempts) == attempt >= maxAttempts - 1

\* attempt === options.maxAttempts
attemptsExhausted(attempt, maxAttempts) == attempt = maxAttempts

\* the loop body up to `await operation()`
invoke(r) ==
    [r EXCEPT !.pc = "invoked", !.starts = r.starts \o <<r.clock>>]

\* retryOperation(operation, options) up to its first await; with
\* maxAttempts < 1 the loop is not entered and lastError, undefined, is thrown
startRetry(maxAttempts, delay, backoff) ==
    LET r == [RetryIdle EXCEPT !.maxAttempts = maxAttempts, !.delay = delay,
                               !.backoff = backoff, !.attempt = 1]
    IN
    IF 1 <= maxAttempts
    THEN invoke(r)
    ELSE [r EXCEPT !.pc = "settled", !.result = RejectedWith(r.lastError)]

\* operation() resolved with v after d milliseconds: return await operation()
operationResolved(r, v, d) ==
    [r EXCEPT !.pc = "settled", !.clock = r.clock + d,
              !.ends = r.ends \o <<r.clock + d>>,
              !.outcomes = r.outcomes \o <<Returned(v)>>,
              !.result = Fulfilled(v)]

\* operation() threw e after d milliseconds: the catch block
operationThrew(r, e, d) ==
    LET errorType == detectErrorType(e, "")
        q == [r EXCEPT !.clock = r.clock + d,
                       !.ends = r.ends \o <<r.clock + d>>,
                       !.outcomes = r.outcomes \o <<Threw(e, errorType)>>,
                       !.lastError = e]
        wait == retryDelay(r.delay, r.backoff, r.attempt)
    IN
    IF ~retryableType(errorType)
    THEN [q EXCEPT !.pc = "settled", !.result = RejectedWith(e)]
    ELSE IF attemptsExhausted(r.attempt, r.maxAttempts)
    THEN [q EXCEPT !.pc = "settled", !.result = RejectedWith(q.lastError)]
    ELSE [q EXCEPT !.pc = "waiting", !.waits = r.waits \o <<wait>>,
                   !.due = q.clock + wait]

\* the timer fired, late milliseconds after it was due: attempt++ and the
\* loop condition, which holds here because attempt was below maxAttempts
timerFired(r, late) ==
    invoke([r EXCEPT !.clock = r.due + late, !.attempt = r.attempt + 1])

RetryCall(maxAttempts, delay, backoff) ==
    /\ retry.pc = "idle"
    /\ retry' = startRetry(maxAttempts, delay, backoff)
    /\ UNCHANGED <<call, phoneCall, install, login, edit>>
    /\ UNCHANGED <<gateVars, locVars>>

OperationResolves(v, d) ==
    /\ retry.pc = "invoked"
    /\ retry' = operationResolved(retry, v, d)
    /\ UNCHANGED <<call, phoneCall, install, login, edit>>
    /\ UNCHANGED <<gateVars, locVars>>

OperationThrows(e, d) ==
    /\ retry.pc = "invoked"
    /\ retry' = operationThrew(retry, e, d)
    /\ UNCHANGED <<call, phoneCall, install, login, edit>>
    /\ UNCHANGED <<gateVars, locVars>>

TimerFires(late) ==
    /\ retry.pc = "waiting"
    /\ retry' = timerFired(retry, late)
    /\ UNCHANGED <<call, phoneCall, install, login, edit>>
    /\ UNCHANGED <<gateVars, locVars>>

(***************************************************************************)
(* Sign-in: src/lib/context/AuthContext.tsx, api/auth/login-direct, the    *)
(* login page                                                              *)
(***************************************************************************)
isLetter(c) ==
    \E i \in 1..Len(UpperCase) : charAt(UpperCase, i) = c \/ charAt(LowerCase, i) = c

validatePassword(password) ==
    IF password = ""
    THEN ValidationResult(FALSE, "Password is required")
    ELSE IF Len(password) < 8
    THEN ValidationResult(FALSE, "Password must be at least 8 characters long")
    ELSE IF Len(password) > 128
    THEN ValidationResult(FALSE, "Password is too long")
    ELSE IF ~\E i \in 1..Len(password) : isLetter(charAt(password, i))
    THEN ValidationResult(FALSE, "Password must contain at least one letter")
    ELSE IF ~\E i \in 1..Len(password) : isDigit(charAt(password, i))
    THEN ValidationResult(FALSE, "Password must contain at least one number")
    ELSE ValidationResult(TRUE, "")

formatPhoneNumber(phone) ==
    IF phone = "" THEN ""
    ELSE LET cleaned == keepDigitsAndPlus(phone)
             digits  == onlyDigits(cleaned)
         IN  IF startsWith(cleaned, "+") THEN cleaned
             ELSE IF Len(digits) = 10 THEN "+1" \o digits
             ELSE IF Len(digits) = 11 /\ startsWith(digits, "1") THEN "+" \o digits
             ELSE phone

\* POST /api/auth/login-direct.  valid: isValidPhoneNumber(parsePhoneNumber(
\* phone_number)) of @/types/database; found: the users table has a row with
\* that phone number; fault: "server" when a call in the try block throws.
\* Any password is accepted for an existing user.  The route reads the users
\* table only: it makes no call of supabase.auth and sets no cookie.
loginDirect(phone_number, password, valid, found, fault) ==
    IF fault = "server" THEN [status |-> 500, user |-> FALSE]
    ELSE IF phone_number = "" \/ password = "" THEN [status |-> 400, user |-> FALSE]
    ELSE IF ~valid THEN [status |-> 400, user |-> FALSE]
    ELSE IF ~found THEN [status |-> 401, user |-> FALSE]
    ELSE [status |-> 200, user |-> TRUE]

\* supabase.auth.refreshSession(): without a session it yields an error
\* object and no session; with one, the session is renewed or lost.  It does
\* not throw.
refreshSession(session, renewed) == session /\ renewed

\* signIn(phoneNumber, password): threw, the user state of the context and the
\* session of the browser after the call.  fault "network": fetch rejects.
signIn(phoneNumber, password, session, valid, found, fault, renewed) ==
    LET response == loginDirect(formatPhoneNumber(phoneNumber), password, valid, found, fault)
    IN  IF fault = "network"
        THEN [threw |-> TRUE, status |-> 0, user |-> FALSE, session |-> session]
        ELSE IF response.status # 200
        THEN [threw |-> TRUE, status |-> response.status, user |-> FALSE,
              session |-> session]
        ELSE [threw |-> FALSE, status |-> 200, user |-> TRUE,
              session |-> refreshSession(session, renewed)]

\* the login page and the browser: pc is form (nothing submitted), invalid
\* (validateForm refused), failed (signIn threw) or pushed (router.push ran);
\* user is the user state of the AuthContext, session says whether the
\* browser holds a Supabase session, the one that getUser() of the gate finds
LoginForm(session) ==
    [pc |-> "form", countryCode |-> "+1", phone |-> "", password |-> "",
     status |-> 0, user |-> FALSE, session |-> session]

LoginIdle == LoginForm(FALSE)

LoginCountryCodes == {"+1", "+44"}

LoginPhones == {"", "(555) 123-4567", "(555) 000-0000", "(555) 987-6543", "(555) 12"}

LoginPasswords == {"", "secret12", "longpassword", "1234"}

LoginFaults == {"none", "server", "network"}

\* validateForm() of the login page
loginFormValid(countryCode, phone, password) ==
    /\ validatePhoneNumber(countryCode \o onlyDigits(phone)).valid
    /\ validatePassword(password).valid

\* handleSubmit of the login page, with the request that router.push('/feed')
\* makes; the gate looks the session up
LoginSubmit(countryCode, phone, password, valid, found, fault, renewed) ==
    LET form   == [login EXCEPT !.countryCode = countryCode, !.phone = phone,
                                !.password = password]
        result == signIn(countryCode \o onlyDigits(phone), password, login.session,
                         valid, found, fault, renewed)
    IN
    /\ login.pc # "pushed"
    /\ IF ~loginFormValid(countryCode, phone, password)
       THEN /\ login' = [form EXCEPT !.pc = "invalid", !.status = 0]
            /\ UNCHANGED gateVars
       ELSE IF result.threw
       THEN /\ login' = [form EXCEPT !.pc = "failed", !.status = result.status]
            /\ UNCHANGED gateVars
       ELSE /\ login' = [form EXCEPT !.pc = "pushed", !.status = result.status,
                                     !.user = result.user, !.session = result.session]
            /\ gPath' = "/feed"
            /\ gSearch' = ""
            /\ gUser' = result.session
            /\ gResp' = respond("/feed", result.session, FALSE)
            /\ gHops' = 0
    /\ UNCHANGED <<locVars, retry, call, phoneCall, install, edit>>

(***************************************************************************)
(* Profile edit form: src/app/profile/edit/page.tsx, with validateName and *)
(* validateEmail of src/lib/services/location.ts                           *)
(***************************************************************************)
\* /^[a-zA-Z\s\-']+$/.test(s)
nameRegex(s) ==
    /\ s # ""
    /\ \A i \in 1..Len(s) : isLetter(charAt(s, i)) \/ charAt(s, i) \in {" ", "-", "'"}

validateName(name) ==
    IF name = ""
    THEN ValidationResult(FALSE, "Name is required")
    ELSE LET trimmed == trim(name)
         IN  IF Len(trimmed) < 2
             THEN ValidationResult(FALSE, "Name must be at least 2 characters long")
             ELSE IF Len(trimmed) > 50
             THEN ValidationResult(FALSE, "Name must be less than 50 characters")
             ELSE IF ~nameRegex(trimmed)
             THEN ValidationResult(FALSE,
                      "Name can only contain letters, spaces, hyphens, and apostrophes")
             ELSE ValidationResult(TRUE, "")

\* [A-Za-z0-9._%+-] and [A-Za-z0-9.-]
localChar(c) == isLetter(c) \/ isDigit(c) \/ c \in {".", "_", "%", "+", "-"}

domainChar(c) == isLetter(c) \/ isDigit(c) \/ c \in {".", "-"}

\* /^[A-Za-z0-9._%+-]+@[A-Za-z0-9.-]+\.[A-Za-z]{2,}$/.test(s): at is the
\* place of the @, dot the place of the dot before the last label
emailRegex(s) ==
    \E at \in 2..Len(s), dot \in 1..Len(s) :
        /\ charAt(s, at) = "@"
        /\ \A i \in 1..(at - 1) : localChar(charAt(s, i))
        /\ dot > at + 1
        /\ charAt(s, dot) = "."
        /\ \A i \in (at + 1)..(dot - 1) : domainChar(charAt(s, i))
        /\ Len(s) - dot >= 2
        /\ \A i \in (dot + 1)..Len(s) : isLetter(charAt(s, i))

\* a value of type ValidationResult | undefined
ResultUndefined == [undefined |-> TRUE, valid |-> FALSE, message |-> ""]

ResultObject(r) == [undefined |-> FALSE, valid |-> r.valid, message |-> r.message]

validateEmail(email) ==
    IF email = "" \/ trim(email) = ""
    THEN ResultUndefined
    ELSE LET trimmed == trim(email)
         IN  IF ~emailRegex(trimmed)
             THEN ResultObject(ValidationResult(FALSE, "Please enter a valid email address"))
             ELSE IF Len(trimmed) > 254
             THEN ResultObject(ValidationResult(FALSE, "Email address is too long"))
             ELSE ResultObject(ValidationResult(TRUE, ""))

\* if (x) on a value of type ValidationResult | undefined: an object is
\* truthy whatever its fields
truthyResult(r) == ~r.undefined

\* the user's stored profile
StoredName == "Dana Lee"

StoredEmail == ""

\* the page: formData, which entries of formErrors are set, locationUpdated,
\* and what handleSave came to: pc is editing, blocked (validateForm
\* refused), saved or failed; requests are the requests handleSave has sent
EditForm ==
    [name |-> StoredName, email |-> StoredEmail, nameError |-> FALSE,
     emailError |-> FALSE, locationUpdated |-> FALSE, pc |-> "editing",
     requests |-> <<>>]

hasUnsavedChanges(f) ==
    f.name # StoredName \/ f.email # StoredEmail \/ f.locationUpdated

\* validateForm(): the entries of formErrors that it sets
validateForm(f) ==
    [name  |-> truthyResult(ResultObject(validateName(f.name))),
     email |-> IF trim(f.email) # ""
               THEN truthyResult(validateEmail(trim(f.email)))
               ELSE FALSE]

\* handleSave(); patchOk: the response of PATCH /api/profile is ok (a fetch
\* that rejects counts as not ok)
handleSave(f, patchOk) ==
    LET errors == validateForm(f)
        g == [f EXCEPT !.nameError = errors.name, !.emailError = errors.email]
    IN  IF errors.name \/ errors.email
        THEN [g EXCEPT !.pc = "blocked"]
        ELSE IF ~patchOk
        THEN [g EXCEPT !.pc = "failed", !.requests = <<"PATCH /api/profile">>]
        ELSE [g EXCEPT !.pc = "saved",
                       !.requests = IF f.locationUpdated
                                    THEN <<"PATCH /api/profile", "PATCH /api/profile/location">>
                                    ELSE <<"PATCH /api/profile">>]

EditNames == {"", "A", "Al", "Dana Lee", "O'Neil-Smith", "R2D2", "  Jo  "}

EditEmails == {"", "  ", "a@b.co", "dana@example.com", "dana@example", "not an email", "a@b.c"}

\* handleInputChange(field, value)
EditInput(field, value) ==
    /\ edit.pc # "saved"
    /\ edit' = IF field = "name"
               THEN [edit EXCEPT !.name = value, !.nameError = FALSE, !.pc = "editing"]
               ELSE [edit EXCEPT !.email = value, !.emailError = FALSE, !.pc = "editing"]
    /\ UNCHANGED <<gateVars, locVars, retry, call, phoneCall, install, login>>

\* handleLocationUpdate() with a successful result, as far as this form goes
EditLocationUpdated ==
    /\ edit.pc # "saved"
    /\ ~edit.locationUpdated
    /\ edit' = [edit EXCEPT !.locationUpdated = TRUE]
    /\ UNCHANGED <<gateVars, locVars, retry, call, phoneCall, install, login>>

\* a click on Save, which is enabled when there are unsaved changes
SaveClick(patchOk) ==
    /\ edit.pc # "saved"
    /\ hasUnsavedChanges(edit)
    /\ edit' = handleSave(edit, patchOk)
    /\ UNCHANGED <<gateVars, locVars, retry, call, phoneCall, install, login>>

UtilIdle ==
    /\ retry = RetryIdle /\ call = CallNone /\ phoneCall = PhoneNone
    /\ install = InstallIdle /\ login = LoginIdle /\ edit = EditForm

(***************************************************************************)
(* Specifications                                                          *)
(***************************************************************************)
LocIdle ==
    /\ storage = NoEntry
    /\ now = CACHE_DURATION_MS
    /\ ticks = 0
    /\ att = [s \in Slots |-> IdleAttempt]
    /\ ui = UiIdle
    /\ page = "profile-setup"
    /\ api = ApiNone
    /\ lastGps = NoGps

\* the session gate
GateInit == GateIdle /\ LocIdle /\ UtilIdle

GateNext ==
    \/ \E p \in GatePaths, q \in GateSearches, u \in BOOLEAN, r \in BOOLEAN :
          Navigate(p, q, u, r)
    \/ FollowRedirect

SpecGate == GateInit /\ [][GateNext]_vars

\* the exported cache functions, called directly
CacheInit ==
    /\ GateIdle
    /\ UtilIdle
    /\ storage \in InitStorages
    /\ now = CACHE_DURATION_MS
    /\ ticks = 0
    /\ att = [s \in Slots |-> IdleAttempt]
    /\ ui = UiIdle
    /\ page = "profile-setup"
    /\ api = ApiNone
    /\ lastGps = NoGps

CacheNext ==
    \/ \E f \in ReadFaults : ApiGetCached(f)
    \/ \E c \in ApiCoords, name \in ApiNames, f \in WriteFaults :
          ApiCacheLocation(c.latitude, c.longitude, name, f)
    \/ \E c \in ApiCoords, name \in ApiNames, f \in Faults :
          ApiRoundTrip(c.latitude, c.longitude, name, f)
    \/ \E f \in ReadFaults : ApiClearCache(f)
    \/ \E d \in TickSteps : Tick(d)

SpecCache == CacheInit /\ [][CacheNext]_vars

\* detection attempts started from a page
LocInit ==
    /\ GateIdle
    /\ UtilIdle
    /\ storage \in InitStorages
    /\ now = CACHE_DURATION_MS
    /\ ticks = 0
    /\ att = [s \in Slots |-> IdleAttempt]
    /\ ui = UiIdle
    /\ page \in Pages
    /\ api = ApiNone
    /\ lastGps = NoGps

LocNext ==
    \/ \E av \in BOOLEAN, pa \in BOOLEAN : DetectClick(av, pa)
    \/ \E s \in Slots, o \in PermissionOutcomes, f \in ReadFaults : PermissionResult(s, o, f)
    \/ \E s \in Slots, o \in ProbeOutcomes, f \in ReadFaults : ProbeResult(s, o, f)
    \/ \E s \in Slots, pos \in DevicePositions : PositionOk(s, pos)
    \/ \E s \in Slots, code \in PositionErrors : PositionError(s, code)
    \/ \E s \in Slots, o \in GeoOutcomes, f \in WriteFaults : GeocodeResult(s, o, f)
    \/ \E s \in Slots : Deliver(s)
    \/ UserEffect
    \/ \E d \in TickSteps : Tick(d)

SpecLoc == LocInit /\ [][LocNext]_vars

\* every platform call of an attempt calls back, and the handler resumes
LocFairness ==
    \A s \in Slots :
        /\ WF_vars(\E o \in PermissionOutcomes, f \in ReadFaults : PermissionResult(s, o, f))
        /\ WF_vars(\E o \in ProbeOutcomes, f \in ReadFaults : ProbeResult(s, o, f))
        /\ WF_vars(\/ \E pos \in DevicePositions : PositionOk(s, pos)
                   \/ \E code \in PositionErrors : PositionError(s, code))
        /\ WF_vars(\E o \in GeoOutcomes, f \in WriteFaults : GeocodeResult(s, o, f))
        /\ WF_vars(Deliver(s))

SpecLocFair == LocInit /\ [][LocNext]_vars /\ LocFairness

\* a page on which the handler of the detect button may run again while an
\* earlier call of it is still awaiting getLocationWithFallback
MaxRacing == 2

RaceSlots == 1..MaxRacing

RaceInit ==
    /\ GateIdle
    /\ UtilIdle
    /\ storage \in {NoEntry, Entry(10, 20, "Old area", 0)}
    /\ now = CACHE_DURATION_MS
    /\ ticks = 0
    /\ att = [s \in RaceSlots |-> IdleAttempt]
    /\ ui = UiIdle
    /\ page \in Pages
    /\ api = ApiNone
    /\ lastGps = NoGps

RaceNext ==
    \/ \E av \in BOOLEAN, pa \in BOOLEAN : DetectClick(av, pa)
    \/ \E s \in RaceSlots, o \in PermissionOutcomes, f \in ReadFaults : PermissionResult(s, o, f)
    \/ \E s \in RaceSlots, o \in ProbeOutcomes, f \in ReadFaults : ProbeResult(s, o, f)
    \/ \E s \in RaceSlots, pos \in DevicePositions : PositionOk(s, pos)
    \/ \E s \in RaceSlots, code \in PositionErrors : PositionError(s, code)
    \/ \E s \in RaceSlots, o \in GeoOutcomes, f \in WriteFaults : GeocodeResult(s, o, f)
    \/ \E s \in RaceSlots : Deliver(s)
    \/ UserEffect

SpecRace == RaceInit /\ [][RaceNext]_vars

\* several tabs of the application, each running getLocationWithFallback on
\* the one localStorage of the origin; every localStorage call is atomic, and
\* a function of the service runs to completion within its tab
MaxTabs == 2

Tabs == 1..MaxTabs

\* the devices of the tabs report one of two positions
TabPositions ==
    {[latitude |-> 40, longitude |-> -75], [latitude |-> 41, longitude |-> -74]}

\* a tab calls getLocationWithFallback (in a browser with the Permissions API)
TabDetect(s) ==
    /\ att[s].pc = "idle"
    /\ att' = [att EXCEPT ![s] = startAttempt(TRUE, TRUE)]
    /\ UNCHANGED <<storage, now, ticks, ui, page, api, lastGps>>
    /\ UNCHANGED <<gateVars, utilVars>>

\* the caller in the tab has taken the result
TabDone(s) ==
    /\ att[s].pc = "resolved"
    /\ att' = [att EXCEPT ![s] = IdleAttempt]
    /\ UNCHANGED <<storage, now, ticks, ui, page, api, lastGps>>
    /\ UNCHANGED <<gateVars, utilVars>>

TabsInit ==
    /\ GateIdle
    /\ UtilIdle
    /\ storage \in {NoEntry, Entry(10, 20, "Old area", 0)}
    /\ now = CACHE_DURATION_MS
    /\ ticks = 0
    /\ att = [s \in Tabs |-> IdleAttempt]
    /\ ui = UiIdle
    /\ page = "profile-setup"
    /\ api = ApiNone
    /\ lastGps = NoGps

TabsNext ==
    \/ \E s \in Tabs : TabDetect(s)
    \/ \E s \in Tabs, o \in PermissionOutcomes, f \in ReadFaults : PermissionResult(s, o, f)
    \/ \E s \in Tabs, pos \in TabPositions : PositionOk(s, pos)
    \/ \E s \in Tabs, code \in PositionErrors : PositionError(s, code)
    \/ \E s \in Tabs, o \in GeoOutcomes, f \in WriteFaults : GeocodeResult(s, o, f)
    \/ \E s \in Tabs : TabDone(s)
    \/ \E d \in TickSteps : Tick(d)

SpecTabs == TabsInit /\ [][TabsNext]_vars

\* the classification functions, called directly
ErrorsInit == GateIdle /\ LocIdle /\ UtilIdle

ErrorsNext ==
    \/ \E e \in ErrorValues, c \in ErrorContexts : CallDetectErrorType(e, c)
    \/ \E e \in ErrorValues, c \in ErrorContexts, m \in CustomMessages :
          CallCreateErrorInfo(e, c, m)

SpecErrors == ErrorsInit /\ [][ErrorsNext]_vars

\* one call of retryOperation
RetryInit == GateIdle /\ LocIdle /\ UtilIdle

RetryNext ==
    \/ \E n \in RetryMaxAttempts, d \in RetryDelays, b \in BOOLEAN : RetryCall(n, d, b)
    \/ \E v \in RetryValues, d \in OpDurations : OperationResolves(v, d)
    \/ \E e \in RetryErrors, d \in OpDurations : OperationThrows(e, d)
    \/ \E late \in TimerLateness : TimerFires(late)

SpecRetry == RetryInit /\ [][RetryNext]_vars

\* the phone functions, called directly
PhoneInit == GateIdle /\ LocIdle /\ UtilIdle

PhoneNext ==
    \/ \E x \in PhoneInputs : CallValidatePhoneNumber(x)
    \/ \E x \in PhoneInputs : CallFormatPhoneAsUserTypes(x)

SpecPhone == PhoneInit /\ [][PhoneNext]_vars

\* the display and canonical forms, called directly
PhoneFormatNext ==
    \/ \E x \in PhoneInputs : CallFormatPhoneForDisplay(x)
    \/ \E x \in PhoneInputs : CallParsePhoneToE164(x)
    \/ \E x \in PhoneInputs : CallIsPhoneComplete(x)

SpecPhoneFormat == PhoneInit /\ [][PhoneFormatNext]_vars

\* the install prompt in one browser; the key may hold a dismissal of an
\* earlier visit (a day old) or a value that is not a number
StoredDismissals == {<<"", -1>>, <<"soon", -1>>, <<numberToString(0), 0>>}

InstallInit ==
    /\ GateIdle /\ LocIdle
    /\ retry = RetryIdle /\ call = CallNone /\ phoneCall = PhoneNone /\ login = LoginIdle
    /\ edit = EditForm
    /\ \E standalone \in BOOLEAN, d \in StoredDismissals :
          install = InstallState(standalone, d[1], DayMs, d[2])

InstallNext ==
    \/ Mount
    \/ BeforeInstallPrompt
    \/ AppInstalled
    \/ DismissClick
    \/ \E o \in InstallOutcomes : InstallClick(o)
    \/ TriggerInstallPrompt
    \/ \E d \in InstallTickSteps : InstallTick(d)

SpecInstall == InstallInit /\ [][InstallNext]_vars

\* the login page; the browser may hold a session from elsewhere
LoginInit ==
    /\ GateIdle /\ LocIdle
    /\ retry = RetryIdle /\ call = CallNone /\ phoneCall = PhoneNone
    /\ install = InstallIdle /\ edit = EditForm
    /\ \E session \in BOOLEAN : login = LoginForm(session)

LoginNext ==
    \/ \E c \in LoginCountryCodes, x \in LoginPhones, pw \in LoginPasswords,
          valid \in BOOLEAN, found \in BOOLEAN, fault \in LoginFaults,
          renewed \in BOOLEAN :
          LoginSubmit(c, x, pw, valid, found, fault, renewed)
    \/ FollowRedirect

SpecLogin == LoginInit /\ [][LoginNext]_vars

\* the profile edit form
EditInit == GateIdle /\ LocIdle /\ UtilIdle

EditNext ==
    \/ \E x \in EditNames : EditInput("name", x)
    \/ \E x \in EditEmails : EditInput("email", x)
    \/ EditLocationUpdated
    \/ \E ok \in BOOLEAN : SaveClick(ok)

SpecEdit == EditInit /\ [][EditNext]_vars

(***************************************************************************)
(* Session gate: properties                                                *)
(***************************************************************************)
answered == gResp.kind # "none"

redirectsTo(resp, pathname) == resp.kind = "redirect" /\ resp.pathname = pathname

startsWithProtectedPrefix(pathname) ==
    \E prefix \in {"/feed", "/workout", "/profile", "/friends"} :
        startsWith(pathname, prefix)

startsWithPublicPrefix(pathname) ==
    \E prefix \in {"/login", "/register", "/profile-setup"} :
        startsWith(pathname, prefix)

logHas(a, e) == \E i \in 1..Len(a.log) : a.log[i] = e

\* how often the attempt made the call e
logCount(a, e) == Cardinality({i \in 1..Len(a.log) : a.log[i] = e})

\* every call of the attempt that is in the set es comes after the cache read
readPrecedes(a, es) ==
    \A i \in 1..Len(a.log) :
        a.log[i] \in es => \E j \in 1..(i - 1) : a.log[j] = "getCachedLocation"

\* the step in which attempt s reads the cache
readStep(s) ==
    /\ ~logHas(att[s], "getCachedLocation")
    /\ logHas(att'[s], "getCachedLocation")

\* the stored value e is an entry no older than 24 hours at time t whose
\* coordinates are in range
freshValid(e, t) ==
    /\ e.kind = "entry"
    /\ e.tsOk
    /\ t - e.timestamp <= 24 * 60 * 60 * 1000
    /\ e.latitude >= -90 /\ e.latitude <= 90
    /\ e.longitude >= -180 /\ e.longitude <= 180

gpsStep(s) == att[s].pc = "geocode" /\ att'[s].pc = "resolved"

inRange(lat, lng) == lat >= -90 /\ lat <= 90 /\ lng >= -180 /\ lng <= 180

permissionKnown(a) == a.permission # ""

\* C7: an attempt that finds geolocation unavailable or the permission denied
\* returns an error having neither read the cache nor called the geocoder,
\* whatever the cache holds; with the permission granted or prompt the attempt
\* goes on to read the cache.
C7_BlockedBeforeCache ==
    \A s \in Slots :
        LET a == att[s] IN
        /\ (a.pc # "idle" /\ (~a.available \/ a.permission = "denied")) =>
              /\ a.pc = "resolved"
              /\ a.result.settled = "fulfilled"
              /\ ~a.result.success
              /\ a.result.error = (IF a.available THEN ErrDenied ELSE ErrNotAvailable)
              /\ ~logHas(a, "getCachedLocation")
              /\ ~logHas(a, "getCurrentPosition")
              /\ ~logHas(a, "reverseGeocode")
              /\ ~logHas(a, "fetch")
              /\ ~logHas(a, "cacheLocation")
        /\ (a.pc # "idle" /\ a.available /\ a.permission \in {"granted", "prompt"}) =>
              logHas(a, "getCachedLocation")
        /\ (a.pc # "idle" /\ permissionKnown(a)) =>
              a.permission \in {"granted", "prompt", "denied"}

\* the permission was denied while the cache held a fresh valid entry
C7_Witness ==
    \E s \in Slots :
        /\ att[s].pc = "resolved"
        /\ att[s].permission = "denied"
        /\ att[s].result.error = ErrDenied
        /\ freshValid(storage, now)

\* C8: when the position request fails, the returned error tells which of
\* denial, timeout and unavailable position was the reason: no other reason
\* would have produced the same result.
C8_ReasonCarried ==
    \A s \in Slots :
        (att[s].pc = "resolved" /\ att[s].posError # "") =>
            /\ ~att[s].result.success
            /\ att[s].result.hasError
            /\ \A c \in PositionErrors \ {att[s].posError} :
                   positionFailed(IdleAttempt, c).result # att[s].result

\* C9: getLocationWithFallback never rejects; a result has success = true
\* exactly when it has data and no error, and success = false exactly when it
\* has an error message and no data.
C9_AlwaysResolves ==
    \A s \in Slots :
        LET r == att[s].result IN
        /\ r.settled # "rejected"
        /\ att[s].pc = "resolved" =>
              /\ r.settled = "fulfilled"
              /\ r.success <=> (r.data.present /\ ~r.hasError)
              /\ ~r.success <=> (r.hasError /\ r.error # "" /\ ~r.data.present)
        /\ att[s].pc # "resolved" => r = Pending

\* a storage call threw inside the attempt and the attempt still resolved
C9_Witness ==
    \E s \in Slots :
        /\ att[s].pc = "resolved"
        /\ att[s].readFaulted
        /\ att[s].result.settled = "fulfilled"
        /\ ~att[s].result.success
        /\ att[s].result.error = ErrUnexpected

(***************************************************************************)
(* Properties of the pages                                                 *)
(***************************************************************************)
settled(u) == u.state \in {"success", "error"}

\* the step in which the handler of the detect button starts attempt s
clickStep(s) == att[s].pc = "idle" /\ att'[s].pc # "idle"

\* the step in which the handler resumes with the result of attempt s
deliverStep(s) == att[s].pc = "resolved" /\ att'[s].pc = "idle"

inFlight(s) == att[s].pc # "idle"

lastWritten == Entry(lastGps.latitude, lastGps.longitude, trim(lastGps.name), lastGps.at)

\* C12: with attempts of several tabs interleaved on the one key, the stored
\* value is at every moment empty, the value the key held at the start, or
\* exactly the entry of the last accepted write, with coordinates, name and
\* timestamp all of that one write; and an attempt that returns from the cache
\* returns the coordinates and the name of the one entry stored at that moment.
C12_LastWriteWins ==
    [][/\ \/ storage' = NoEntry
          \/ storage' = storage
          \/ lastGps'.set /\ storage' = lastWritten'
       /\ \A s \in Tabs :
             (readStep(s) /\ att'[s].pc = "resolved" /\ att'[s].result.success) =>
                /\ storage.kind = "entry"
                /\ att'[s].result = SuccessResult(storage.latitude, storage.longitude,
                                                  storage.name, "cache")
       /\ \A s \in Tabs :
             (gpsStep(s) /\ ~att'[s].writeFaulted) =>
                LET d == att'[s].result.data IN
                storage' = Entry(d.latitude, d.longitude, trim(d.name), now)
      ]_vars

\* both tabs detected afresh, at different positions and times, and the key
\* holds the entry of the later write, which replaced the earlier one
C12_Witness ==
    /\ att[1].pc = "resolved" /\ att[2].pc = "resolved"
    /\ att[1].result.success /\ att[2].result.success
    /\ att[1].result.data.source = "gps" /\ att[2].result.data.source = "gps"
    /\ ~att[1].writeFaulted /\ ~att[2].writeFaulted
    /\ att[1].result.data.latitude # att[2].result.data.latitude
    /\ att[1].result.data.name # att[2].result.data.name
    /\ storage.kind = "entry"
    /\ storage.latitude = att[2].result.data.latitude
    /\ storage.name = att[2].result.data.name
    /\ storage.timestamp = now
    /\ now > CACHE_DURATION_MS

(***************************************************************************)
(* Properties of retryOperation                                            *)
(***************************************************************************)
\* number of invocations of the operation so far
invocations == Len(retry.starts)

\* the class that the catch block gave the error of invocation k
thrownType(k) == retry.outcomes[k].errorType

NonRetryableTypes == {"VALIDATION", "AUTHENTICATION", "PERMISSION", "PHONE"}
RetryableTypes == {"NETWORK", "DATA", "UNKNOWN"}

\* C13: the operation is invoked at most maxAttempts times; no invocation
\* follows one that succeeded, and retryOperation resolves with the value of
\* that invocation; when every invocation has thrown an error of a retryable
\* type, the operation has been invoked exactly maxAttempts times by the time
\* retryOperation settles, and it rejects with the error of the last
\* invocation.
C13_BoundedAttempts ==
    LET n == Len(retry.outcomes) IN
    /\ invocations <= retry.maxAttempts
    /\ \A k \in 1..(n - 1) : ~retry.outcomes[k].ok
    /\ (n >= 1 /\ retry.outcomes[n].ok) =>
          /\ retry.pc = "settled"
          /\ invocations = n
          /\ retry.result = Fulfilled(retry.outcomes[n].value)
    /\ retry.result.settled = "fulfilled" => (n >= 1 /\ retry.outcomes[n].ok)
    /\ (/\ retry.pc = "settled"
        /\ \A k \in 1..n : ~retry.outcomes[k].ok /\ thrownType(k) \in RetryableTypes) =>
          /\ invocations = retry.maxAttempts
          /\ n = retry.maxAttempts
          /\ retry.result.settled = "rejected"
          /\ n >= 1 => retry.result.error = retry.outcomes[n].error

\* three invocations threw network errors and the call rejected with the last
C13_Witness ==
    /\ retry.pc = "settled"
    /\ retry.maxAttempts = 3
    /\ invocations = 3
    /\ \A k \in 1..3 : ~retry.outcomes[k].ok /\ thrownType(k) = "NETWORK"
    /\ retry.result.settled = "rejected"
    /\ retry.result.error = retry.outcomes[3].error

\* C14: an invocation that throws an error of the type VALIDATION,
\* AUTHENTICATION, PERMISSION or PHONE is the last one: retryOperation rejects
\* with that error, no wait follows it and no further invocation is made,
\* however many attempts remain; after an error of the type NETWORK, DATA or
\* UNKNOWN with attempts remaining the call is not settled by that error: a
\* wait is started, and the next invocation follows it.
C14_NonRetryableStops ==
    LET n == Len(retry.outcomes) IN
    \A k \in 1..n :
        ~retry.outcomes[k].ok =>
            /\ thrownType(k) \in NonRetryableTypes =>
                  /\ k = n
                  /\ invocations = k
                  /\ Len(retry.waits) = k - 1
                  /\ retry.pc = "settled"
                  /\ retry.result = RejectedWith(retry.outcomes[k].error)
            /\ (thrownType(k) \in RetryableTypes /\ k < retry.maxAttempts) =>
                  /\ Len(retry.waits) >= k
                  /\ (invocations > k \/ retry.pc = "waiting")
                  /\ (invocations = k => retry.result = Unsettled)
            /\ thrownType(k) \in NonRetryableTypes \cup RetryableTypes

\* a validation error ended a call on its first invocation, two attempts left
C14_Witness ==
    /\ retry.pc = "settled"
    /\ retry.maxAttempts = 3
    /\ invocations = 1
    /\ ~retry.outcomes[1].ok
    /\ thrownType(1) = "VALIDATION"
    /\ retry.waits = <<>>
    /\ retry.result.settled = "rejected"

\* C15: invocation k + 1 starts only after invocation k has ended and the wait
\* that followed it, delay * 2^(k-1) with backoff and delay without, has
\* elapsed; an invocation starts only when every earlier one has ended; a
\* settled call has waited once between two invocations and not after the last.
C15_SequentialBackoff ==
    /\ Len(retry.ends) <= invocations
    /\ invocations <= Len(retry.ends) + 1
    /\ retry.pc = "invoked" <=> invocations = Len(retry.ends) + 1
    /\ \A k \in 1..Len(retry.waits) :
          retry.waits[k] = (IF retry.backoff THEN retry.delay * 2^(k - 1) ELSE retry.delay)
    /\ \A k \in 1..(invocations - 1) :
          /\ k <= Len(retry.ends) /\ k <= Len(retry.waits)
          /\ retry.starts[k + 1] >= retry.ends[k] + retry.waits[k]
    /\ \A k \in 1..Len(retry.ends) : retry.ends[k] >= retry.starts[k]
    /\ retry.pc = "waiting" => Len(retry.waits) = invocations
    /\ retry.pc \in {"invoked", "settled"} =>
          Len(retry.waits) = (IF invocations = 0 THEN 0 ELSE invocations - 1)

\* maxAttempts 3, delay 10, backoff: waits of 10 and 20, none after the third
C15_Witness ==
    /\ retry.pc = "settled"
    /\ retry.maxAttempts = 3 /\ retry.delay = 10 /\ retry.backoff
    /\ invocations = 3
    /\ retry.waits = <<10, 20>>
    /\ retry.result.settled = "rejected"

(***************************************************************************)
(* Properties of detectErrorType and createErrorInfo                       *)
(***************************************************************************)
\* the classes in the order of the checks
ClassOrder == <<"NETWORK", "AUTHENTICATION", "PERMISSION", "PHONE", "VALIDATION", "DATA">>

\* the error e, given with the context, carries an indicator of class number i
indicates(i, e, context) ==
    CASE i = 1 -> matchesNetwork(e)
      [] i = 2 -> matchesAuthentication(e)
      [] i = 3 -> matchesPermission(e)
      [] i = 4 -> matchesPhone(e, context)
      [] i = 5 -> matchesValidation(e)
      [] OTHER -> matchesData(e)

\* type is the earliest class indicated, or UNKNOWN when none is
earliestIndicated(type, e, context) ==
    /\ \A i \in 1..Len(ClassOrder) :
          type = ClassOrder[i] <=>
              (indicates(i, e, context) /\ \A j \in 1..(i - 1) : ~indicates(j, e, context))
    /\ type = "UNKNOWN" <=> \A i \in 1..Len(ClassOrder) : ~indicates(i, e, context)

C17_RetryableByType ==
    (call.fn = "createErrorInfo" /\ ~call.info.threw) =>
        LET e == call.error IN
        /\ call.info.retryable <=> call.info.type \in {"NETWORK", "DATA", "UNKNOWN"}
        /\ (/\ e.status = 401
            /\ call.context = ""
            /\ \A i \in {1, 3, 4, 5, 6} : ~indicates(i, e, call.context)) =>
              (call.info.type = "AUTHENTICATION" /\ ~call.info.retryable)
        /\ includes(toLowerCase(e.message), "network") =>
              (call.info.type = "NETWORK" /\ call.info.retryable)

\* C18: createErrorInfo returns an ErrorInfo for every error value, null and
\* undefined included, with a user message and an actionable hint, and with
\* the type UNKNOWN when no indicator is present.
C18_NeverThrows ==
    call.fn = "createErrorInfo" =>
        /\ ~call.info.threw
        /\ call.info.userMessage # ""
        /\ call.info.actionable # ""
        /\ (\A i \in 1..Len(ClassOrder) : ~indicates(i, call.error, call.context)) =>
              call.info.type = "UNKNOWN"

(***************************************************************************)
(* Properties of the phone functions                                       *)
(***************************************************************************)
\* s matches ^\+\d{10,15}$
canonical(s) ==
    /\ Len(s) >= 11
    /\ Len(s) <= 16
    /\ charAt(s, 1) = "+"
    /\ \A i \in 2..Len(s) : isDigit(charAt(s, i))

validated == phoneCall.fn = "validatePhoneNumber"

\* C19, as stated: validatePhoneNumber returns valid exactly for the strings
\* that match ^\+\d{10,15}$, and every other string is returned invalid with
\* a message.
C19_Original ==
    validated =>
        /\ phoneCall.valid <=> canonical(phoneCall.input)
        /\ ~phoneCall.valid => phoneCall.message # ""

\* C19: validatePhoneNumber returns valid exactly for the strings that match
\* ^\+\d{10,15}$ once the white space around them is removed; every other
\* string is returned invalid with a message, and a valid result carries none.
C19_ValidIffTrimmedCanonical ==
    validated =>
        /\ phoneCall.valid <=> canonical(trim(phoneCall.input))
        /\ ~phoneCall.valid => phoneCall.message # ""
        /\ phoneCall.valid => phoneCall.message = ""

\* a padded string was accepted
C19_Witness ==
    /\ validated
    /\ phoneCall.valid
    /\ ~canonical(phoneCall.input)
    /\ trim(phoneCall.input) # phoneCall.input

formatted == phoneCall.fn = "formatPhoneAsUserTypes"

\* a bare digit string (a leading 1 included), or +1 followed by digits; at
\* most 11 digits
domestic(s) ==
    /\ Len(onlyDigits(s)) <= 11
    /\ \/ allDigits(s)
       \/ startsWith(s, "+1") /\ (Len(s) = 2 \/ allDigits(slice(s, 2)))

\* the digits of a domestic input without the country code of a +1 input
nationalDigits(s) == IF startsWith(s, "+1") THEN slice(s, 2) ELSE s

\* C20, as stated: for domestic inputs the output of formatPhoneAsUserTypes
\* has the same digits as the input, in the same order.
C20_Original ==
    (formatted /\ domestic(phoneCall.input)) =>
        onlyDigits(phoneCall.output) = onlyDigits(phoneCall.input)

\* C20: for domestic inputs the digits of the output of formatPhoneAsUserTypes
\* are, in the same order, the first ten digits of the input after the
\* country code of a +1 input: a bare input of at most ten digits keeps all
\* its digits, the 1 of +1 is dropped, an eleventh bare digit is dropped, and
\* no digit is invented; everything else in the output is punctuation.
C20_NationalDigitsKept ==
    (formatted /\ domestic(phoneCall.input)) =>
        /\ onlyDigits(phoneCall.output) = sliceTo(nationalDigits(phoneCall.input), 0, 10)
        /\ \A i \in 1..Len(phoneCall.output) :
               \/ isDigit(charAt(phoneCall.output, i))
               \/ charAt(phoneCall.output, i) \in {"(", ")", " ", "-"}

\* an input of eleven bare digits was formatted
C20_Witness ==
    /\ formatted
    /\ domestic(phoneCall.input)
    /\ allDigits(phoneCall.input)
    /\ Len(phoneCall.input) = 11
    /\ Len(onlyDigits(phoneCall.output)) = 10

displayed == phoneCall.fn = "formatPhoneForDisplay"

parsed == phoneCall.fn = "parsePhoneToE164"

\* a value of eleven digits starting with 1, or one of ten digits without a
\* leading +, whatever punctuation it carries
rendersAsUS(s) ==
    \/ Len(onlyDigits(s)) = 11 /\ startsWith(onlyDigits(s), "1")
    \/ Len(onlyDigits(s)) = 10 /\ ~startsWith(s, "+")

\* C21, as stated: formatPhoneForDisplay renders an 11-digit value starting
\* with 1 and a bare 10-digit value as (AAA) EEE-NNNN and returns every other
\* value, +-prefixed or not, unchanged; for every 10-digit string d,
\* formatPhoneForDisplay(parsePhoneToE164(d)) is d rendered as (AAA) EEE-NNNN.
C21_DisplayRendering ==
    /\ (displayed /\ rendersAsUS(phoneCall.input)) =>
           phoneCall.output =
               renderUS(sliceTo(onlyDigits(phoneCall.input),
                                Len(onlyDigits(phoneCall.input)) - 10,
                                Len(onlyDigits(phoneCall.input))))
    /\ (displayed /\ ~rendersAsUS(phoneCall.input)) =>
           phoneCall.output = phoneCall.input
    /\ (parsed /\ allDigits(phoneCall.input) /\ Len(phoneCall.input) = 10) =>
           formatPhoneForDisplay(phoneCall.output) = renderUS(phoneCall.input)

\* C22: parsePhoneToE164 is idempotent, parsePhoneToE164(parsePhoneToE164(x))
\* = parsePhoneToE164(x) for every input x, and an input already in canonical
\* form (+ followed by 10 to 15 digits) is returned unchanged.
C22_ParseIdempotent ==
    parsed =>
        /\ parsePhoneToE164(phoneCall.output) = phoneCall.output
        /\ canonical(phoneCall.input) => phoneCall.output = phoneCall.input

\* ten bare digits were given the country code
C22_Witness ==
    /\ parsed
    /\ allDigits(phoneCall.input)
    /\ Len(phoneCall.input) = 10
    /\ phoneCall.output = "+1" \o phoneCall.input

completeChecked == phoneCall.fn = "isPhoneComplete"

\* C29, as stated: isPhoneComplete(x) = true implies that parsePhoneToE164(x)
\* is a canonical value (+ followed by digits only) that validatePhoneNumber
\* accepts.
C29_CompleteImpliesValid ==
    (completeChecked /\ phoneCall.valid) =>
        /\ canonical(phoneCall.output)
        /\ validatePhoneNumber(phoneCall.output).valid

\* C28, as stated: retryOperation invokes the operation at least once for
\* every options value, and whenever it rejects, the rejection value is an
\* error thrown by one of its invocations; also for maxAttempts of 0 or less.
C28_InvokedAtLeastOnce ==
    retry.pc = "settled" =>
        /\ invocations >= 1
        /\ retry.result.settled = "rejected" =>
              \E k \in 1..Len(retry.outcomes) :
                  /\ ~retry.outcomes[k].ok
                  /\ retry.outcomes[k].error = retry.result.error

(***************************************************************************)
(* Session gate: route classes and redirect chains                         *)
(***************************************************************************)
\* C24, as stated: no path is classified both protected and public-only, so
\* a request without a user to a public-only route (/login, /register,
\* /profile-setup and the paths below them) passes through without a redirect.
C24_RouteClassesDisjoint ==
    answered =>
        /\ ~(isProtectedRoute(gPath) /\ isPublicRoute(gPath))
        /\ (startsWithPublicPrefix(gPath) /\ ~gUser) => gResp.kind = "next"

\* C27: for a fixed session state, following the redirects of the gate from
\* any path reaches a path that passes through after at most two redirects:
\* no response redirects a path to itself, and no response that follows two
\* redirects is a redirect, with and without a user.
C27_RedirectsTerminate ==
    (answered /\ gResp.kind = "redirect") =>
        /\ gResp.pathname # gPath
        /\ gHops < 2

\* a visitor without a user was sent from a protected path to /login, which
\* passed through
C27_Witness ==
    /\ gHops = 1
    /\ ~gUser
    /\ gPath = "/login"
    /\ gSearch = "?redirect=%2Fworkout"
    /\ gResp.kind = "next"

(***************************************************************************)
(* Properties of the install prompt                                        *)
(***************************************************************************)
\* a dismissal is on record and the handler of beforeinstallprompt has just run
promptedAfterDismissal ==
    install.event = "beforeinstallprompt" /\ install.lastDismissAt >= 0

sinceDismissal == install.clock - install.lastDismissAt

\* C23, as stated: after a dismissal, a later beforeinstallprompt event does
\* not show the prompt while fewer than 7 days have passed since the
\* dismissal; once 7 days have passed the stored dismissal is cleared and the
\* prompt is shown again, unless the app is installed.
C23_DismissalRespected ==
    promptedAfterDismissal =>
        /\ sinceDismissal < 7 * DayMs => ~promptVisible(install)
        /\ (sinceDismissal >= 7 * DayMs /\ ~install.isInstalled) =>
              (promptVisible(install) /\ install.dismissed = "")

(***************************************************************************)
(* Properties of signing in                                                *)
(***************************************************************************)
\* C25, as stated: after signIn has succeeded through the direct login
\* endpoint the session that the gate checks is established: the navigation
\* of the login page to /feed is treated as authenticated and is not
\* redirected to /login.
C25_SignInEstablishesSession ==
    (login.pc = "pushed" /\ gHops = 0) =>
        /\ gPath = "/feed"
        /\ gUser
        /\ gResp.kind = "next"

(***************************************************************************)
(* Properties of the profile edit form                                     *)
(***************************************************************************)
\* handleSave has run on the form as it stands
saveHandled == edit.pc \in {"blocked", "failed", "saved"}

validNameEntered == validateName(edit.name).valid

emailEmptyOrValid == trim(edit.email) = "" \/ validateEmail(edit.email).valid

\* C26, as stated: handleSave with a valid name and an empty or valid email
\* passes the form validation and sends the PATCH /api/profile request;
\* validateForm blocks the save only when the name or the email is invalid.
C26_ValidFormIsSaved ==
    saveHandled =>
        /\ (validNameEntered /\ emailEmptyOrValid) =>
              (edit.pc # "blocked" /\ Len(edit.requests) >= 1
                  /\ edit.requests[1] = "PATCH /api/profile")
        /\ edit.pc = "blocked" => (~validNameEntered \/ ~emailEmptyOrValid)

=============================================================================
